---- MODULE Spec2Model ----
(***************************************************************************)
(* Model of the axios-impostor fetch client: the interceptor registries,  *)
(* the request pipeline of createFetchClient (timeout timer, interceptor  *)
(* chains, fetch, status classification, catch-all) and the SSE           *)
(* connection manager built on it. Further specifications look at parts   *)
(* of it on their own: the SSE read loop as text, one interceptor         *)
(* manager, the interceptor chains with their stages logged, the method   *)
(* wrappers with the config merge, buildURL, two concurrent calls,        *)
(* parseSSEMessage, registries changed while a call is in flight, and     *)
(* request interceptors that rewrite config.timeout.                      *)
(*                                                                         *)
(* One step of the model is one synchronous run of the code between two   *)
(* awaits (or one call made by the caller); the behaviour of a            *)
(* user-supplied function (interceptor, SSE callback) and of the server   *)
(* is an input chosen at the step that runs it.                           *)
(***************************************************************************)
EXTENDS Integers, Sequences, FiniteSets, TLC

\* ---------------------------------------------------------------- bounds
MaxSlots == 2          \* handlers ever registered on the client (both registries)
MaxReads == 2          \* chunks one SSE connection reads
MaxFrames == 2         \* complete frames carried by one chunk
MaxCloseCalls == 2     \* close() calls after which the caller makes no further one

\* ------------------------------------------------------ program constants
DefaultTimeout == 10000   \* createFetchClient's default `timeout`
CallTimeout == 30000      \* a per-call `options.timeout`

\* the calls made on the client; every per-call variable is indexed by them
CallIds == {1}

\* options.timeout: absent (the client default applies) or given
TimeoutOptions == {[given |-> FALSE, ms |-> 0], [given |-> TRUE, ms |-> CallTimeout]}

\* What a user function or the transport can throw: an Error, an Error whose
\* name is 'AbortError', or a value that is no Error (throw 'text').
ThrowKinds == {"Error", "AbortError", "string"}

\* ------------------------------------------------------------- responses
\* A Response is its status and the kind of its body: none, a byte stream that
\* is no JSON, text that is no JSON, or JSON without `message`, with
\* message "not found", with message "" or with message null. `ok` and the
\* presence of `body` are derived as fetch derives them.
BodyKinds ==
    {"nobody", "stream", "unparsable", "json_nomsg", "json_msg", "json_emptymsg",
     "json_nullmsg"}
NoResp == [status |-> 0, body |-> "none"]
NullResult == [status |-> 0, body |-> "null"]
Responses ==
    {[status |-> 200, body |-> "stream"], [status |-> 204, body |-> "nobody"]}
    \cup {[status |-> 404, body |-> b] : b \in BodyKinds}

Ok(r) == r.status >= 200 /\ r.status <= 299
HasBody(r) == r.body \notin {"nobody", "none", "null"}

\* ---------------------------------------------------------------- errors
Msg(kind, n) == [kind |-> kind, n |-> n]
NoErr ==
    [fce |-> FALSE, isError |-> FALSE, name |-> "none", code |-> "none",
     msg |-> Msg("none", 0), hasConfig |-> FALSE, resp |-> NoResp]

\* a value thrown by user code or by the transport
Thrown(k) ==
    [fce |-> FALSE, isError |-> (k # "string"),
     name |-> IF k = "string" THEN "undefined" ELSE k,
     code |-> "none",
     msg |-> IF k = "string" THEN Msg("undefined", 0) ELSE Msg("thrown", 0),
     hasConfig |-> FALSE, resp |-> NoResp]

\* new FetchClientError(message, config, code, undefined, response)
FetchClientError(msg, code, resp) ==
    [fce |-> TRUE, isError |-> TRUE, name |-> "FetchClientError", code |-> code,
     msg |-> msg, hasConfig |-> TRUE, resp |-> resp]

\* ------------------------------------------------------------- registry
Tombstone == [live |-> FALSE, hasRej |-> FALSE]
Handler(rej) == [live |-> TRUE, hasRej |-> rej]

\* use: push the pair, the handle is the new last index
UsePush(handler, rej) == Append(handler, Handler(rej))

\* faulty variant of EjectSlot: handler[id] = null without the test, which
\* lengthens the array when id is past its end
EjectSlotUnguarded(handler, id) ==
    IF id < 1 THEN handler
    ELSE [i \in 1..(IF id > Len(handler) THEN id ELSE Len(handler)) |->
             IF i = id \/ i > Len(handler) THEN Tombstone ELSE handler[i]]

\* faulty variant of EjectSlot: the slot is cut out of the array
\* (handler.splice(id, 1)), which moves every later handler one slot down
EjectSlotSplice(handler, id) ==
    IF id \in 1..Len(handler) /\ handler[id].live
    THEN SubSeq(handler, 1, id - 1) \o SubSeq(handler, id + 1, Len(handler))
    ELSE handler

\* eject: clear the slot when it holds a handler; anything else is a no-op
EjectSlot(handler, id) ==
    IF id \in 1..Len(handler) /\ handler[id].live
    THEN [handler EXCEPT ![id] = Tombstone]
    ELSE handler

\* forEach: the live handlers in slot order, each with its slot index
RECURSIVE ForEachFrom(_, _)
ForEachFrom(handler, i) ==
    IF i > Len(handler) THEN <<>>
    ELSE (IF handler[i].live THEN <<[id |-> i, hasRej |-> handler[i].hasRej]>> ELSE <<>>)
         \o ForEachFrom(handler, i + 1)
\* faulty variant of ForEach: the handlers are visited last to first
ForEachReversed(handler) ==
    [i \in 1..Len(ForEachFrom(handler, 1)) |->
        ForEachFrom(handler, 1)[Len(ForEachFrom(handler, 1)) + 1 - i]]

\* faulty variant of ForEach: the cleared slots are visited too
ForEachAll(handler) == [i \in 1..Len(handler) |-> [id |-> i, hasRej |-> handler[i].hasRej]]

ForEach(handler) == ForEachFrom(handler, 1)

VARIABLES
    requestInterceptors,   \* slot list of the request registry
    responseInterceptors,  \* slot list of the response registry
    pc,                    \* where request() of each call is suspended
    isStream,              \* the call's isStream argument
    options,               \* the call's options.timeout
    timeout,               \* the call's resolved `timeout`
    timer,                 \* the call's timeoutId: none / armed / fired / cleared
    aborted,               \* controller.signal.aborted
    firedAt,               \* pc of the call when its timer fired
    fetched,               \* fetch(url, config) has been called
    config,                \* the config flowing through the request chain
    chain,                 \* stages of the current chain not yet run
    settled,               \* state of the chain's promise: fulfilled or rejected
    response,              \* the response flowing through the response chain
    outcome,               \* how request() settled
    sse,                   \* the SSE connection opened on the call, if any
    trace,                 \* history: the interceptor stages of the call, as they ran
    running,               \* the stage function started and not yet settled, if any
    wire,                  \* read loop: the bytes the server sends on the stream
    pos,                   \* read loop: how many of them reader.read() has handed out
    pending,               \* read loop: bytes the TextDecoder holds back
    buffer,                \* read loop: `buffer`
    messages,              \* read loop: what onMessage was called with, in order
    ended,                 \* read loop: reader.read() has returned done
    registry,              \* one interceptor manager: its `handler` array
    issued,                \* history: what each use registered, in call order
    ejected,               \* history: the handles eject was called with
    lastOp,                \* history: the last call made on the manager
    client,                \* config merge: defaultHeaders and defaultCredentials
    created,               \* history: the client as createFetchClient was given it
    call,                  \* config merge: the wrapper called last and its arguments
    merged,                \* config merge: `config` as request() builds it
    sent,                  \* config merge: `config` as fetch is handed it
    result,                \* config merge: how the wrapper settled
    progress,              \* config merge: where the wrapper call stands
    ncalls,                \* config merge: wrapper calls made so far
    baseURL,               \* buildURL: its first argument
    endpoint,              \* buildURL: its second argument
    url,                   \* buildURL: what it returned
    input,                 \* parseSSEMessage: the text it is given
    parsed                 \* parseSSEMessage: what it returned

\* the history of the interceptor stages
ghostVars == <<trace, running>>
\* the SSE read loop at the level of bytes and text
frameVars == <<wire, pos, pending, buffer, messages, ended>>
\* an interceptor manager on its own
mgrVars == <<registry, issued, ejected, lastOp>>
\* the wrappers and the config merge of request()
cfgVars == <<client, created, call, merged, sent, result, progress, ncalls>>
\* buildURL on its own
urlVars == <<baseURL, endpoint, url>>
\* parseSSEMessage on its own
parseVars == <<input, parsed>>

vars == <<requestInterceptors, responseInterceptors, pc, isStream, options, timeout,
          timer, aborted, firedAt, fetched, config, chain, settled, response, outcome,
          sse, trace, running, wire, pos, pending, buffer, messages, ended,
          registry, issued, ejected, lastOp, client, created, call, merged, sent,
          result, progress, ncalls, baseURL, endpoint, url, input, parsed>>

regVars == <<requestInterceptors, responseInterceptors>>

Fulfilled == [ok |-> TRUE, err |-> NoErr]
Rejected(e) == [ok |-> FALSE, err |-> e]

Pending == [state |-> "pending", value |-> NoResp, err |-> NoErr]
Resolve(v) == [state |-> "resolved", value |-> v, err |-> NoErr]
Reject(e) == [state |-> "rejected", value |-> NoResp, err |-> e]

\* the closure state of sse(): readyState, reader, isClosed, and what the
\* callbacks have been handed so far; `late` names the callbacks that were
\* invoked when isClosed was already set
NoSse ==
    [on |-> FALSE, readyState |-> "none", isClosed |-> FALSE, reader |-> "null",
     acquired |-> FALSE, cancelled |-> FALSE, task |-> "none", reads |-> 0,
     nOpen |-> 0, nMessage |-> 0, nError |-> 0, nClose |-> 0,
     closeCalls |-> 0, caught |-> "none", delivered |-> NoErr, eof |-> FALSE,
     late |-> {}]

\* no stream is being read
FrameIdle ==
    /\ wire = <<>>
    /\ pos = 0
    /\ pending = <<>>
    /\ buffer = <<>>
    /\ messages = <<>>
    /\ ended = FALSE

\* the manager as createInterceptorManager() returns it
MgrIdle ==
    /\ registry = <<>>
    /\ issued = <<>>
    /\ ejected = {}
    /\ lastOp = [op |-> "none", id |-> 0]

\* a value handed over as a body: its JavaScript type and its source text
Undefined == [type |-> "undefined", v |-> <<>>]

\* an options object with no member set
NoOptions ==
    [method |-> "absent", body |-> Undefined, headers |-> <<>>, credentials |-> "absent"]

\* afterWrite: an interceptor wrote into the config of the call before
NoCall ==
    [wrapper |-> "none", body |-> Undefined, options |-> NoOptions, afterWrite |-> FALSE]
NoConfig ==
    [method |-> "absent", body |-> Undefined, credentials |-> "absent", headers |-> <<>>,
     isStream |-> FALSE, object |-> "none"]
NoResult == [response |-> NoResp, state |-> "none", value |-> "none", decoded |-> FALSE]

\* createFetchClient() without arguments: no default headers, 'same-origin'
DefaultClient == [headers |-> <<>>, credentials |-> "same-origin"]

\* no wrapper has been called
CfgIdle ==
    /\ client = DefaultClient
    /\ created = DefaultClient
    /\ call = NoCall
    /\ merged = NoConfig
    /\ sent = NoConfig
    /\ result = NoResult
    /\ progress = "idle"
    /\ ncalls = 0

\* buildURL has not been called
UrlIdle ==
    /\ baseURL = <<>>
    /\ endpoint = <<>>
    /\ url = <<>>

\* parseSSEMessage has not been called
ParseIdle ==
    /\ input = <<>>
    /\ parsed = <<>>

\* no call has been made on the client; ids names the calls it will see
CallsInitOver(ids) ==
    /\ pc = [c \in ids |-> "idle"]
    /\ isStream = [c \in ids |-> FALSE]
    /\ options = [c \in ids |-> [given |-> FALSE, ms |-> 0]]
    /\ timeout = [c \in ids |-> DefaultTimeout]
    /\ timer = [c \in ids |-> "none"]
    /\ aborted = [c \in ids |-> FALSE]
    /\ firedAt = [c \in ids |-> "none"]
    /\ fetched = [c \in ids |-> FALSE]
    /\ config = [c \in ids |-> [sigKept |-> TRUE, timeout |-> 0]]
    /\ chain = [c \in ids |-> <<>>]
    /\ settled = [c \in ids |-> Fulfilled]
    /\ response = [c \in ids |-> NoResp]
    /\ outcome = [c \in ids |-> Pending]
    /\ sse = [c \in ids |-> NoSse]
    /\ trace = [c \in ids |-> <<>>]
    /\ running = [c \in ids |-> FALSE]

CallsInit == CallsInitOver(CallIds)

\* the client as createFetchClient() returns it
ClientInit ==
    /\ requestInterceptors = <<>>
    /\ responseInterceptors = <<>>
    /\ CallsInit

Init == ClientInit /\ FrameIdle /\ MgrIdle /\ CfgIdle /\ UrlIdle /\ ParseIdle

\* ------------------------------------------------- registry operations
\* faulty variant of Use: the handler also joins the chain of a call whose
\* chain of that kind is being run
UseReachesRunning(isReq, rej) ==
    /\ Len(requestInterceptors) + Len(responseInterceptors) < MaxSlots
    /\ IF isReq
       THEN /\ requestInterceptors' = UsePush(requestInterceptors, rej)
            /\ UNCHANGED responseInterceptors
       ELSE /\ responseInterceptors' = UsePush(responseInterceptors, rej)
            /\ UNCHANGED requestInterceptors
    /\ chain' = [c \in DOMAIN chain |->
                    IF pc[c] = (IF isReq THEN "reqChain" ELSE "resChain")
                    THEN Append(chain[c],
                                [id |-> Len(IF isReq THEN requestInterceptors
                                            ELSE responseInterceptors) + 1,
                                 hasRej |-> rej])
                    ELSE chain[c]]
    /\ UNCHANGED <<pc, isStream, options, timeout, timer, aborted, firedAt, fetched, config,
                   settled, response, outcome, sse,
                   ghostVars, frameVars, mgrVars, cfgVars, urlVars, parseVars>>

Use(isReq, rej) ==
    /\ Len(requestInterceptors) + Len(responseInterceptors) < MaxSlots
    /\ IF isReq
       THEN /\ requestInterceptors' = UsePush(requestInterceptors, rej)
            /\ UNCHANGED responseInterceptors
       ELSE /\ responseInterceptors' = UsePush(responseInterceptors, rej)
            /\ UNCHANGED requestInterceptors
    /\ UNCHANGED <<pc, isStream, options, timeout, timer, aborted, firedAt, fetched, config, chain,
                   settled, response, outcome, sse,
                   ghostVars, frameVars, mgrVars, cfgVars, urlVars, parseVars>>

Eject(isReq, id) ==
    /\ IF isReq
       THEN /\ requestInterceptors' = EjectSlot(requestInterceptors, id)
            /\ UNCHANGED responseInterceptors
       ELSE /\ responseInterceptors' = EjectSlot(responseInterceptors, id)
            /\ UNCHANGED requestInterceptors
    /\ UNCHANGED <<pc, isStream, options, timeout, timer, aborted, firedAt, fetched, config, chain,
                   settled, response, outcome, sse,
                   ghostVars, frameVars, mgrVars, cfgVars, urlVars, parseVars>>

\* ------------------------------------------------------ request pipeline
\* faulty variant of EffectiveTimeout: the per-call timeout is ignored
EffectiveTimeoutDefaultOnly(opt) == DefaultTimeout

\* const { timeout = defaultTimeout, ... } = options
EffectiveTimeout(opt) == IF opt.given THEN opt.ms ELSE DefaultTimeout

\* faulty variant of ArmTimer: the timer is armed for streaming calls too
ArmTimerAlways(stream) == "armed"

\* if (!isStream) timeoutId = setTimeout(() => controller.abort(), timeout)
ArmTimer(stream) == IF stream THEN "none" ELSE "armed"

\* clearTimeout(timeoutId): a pending timer is cancelled, anything else stays
ClearTimeout(t) == IF t = "armed" THEN "cleared" ELSE t

\* request() up to its first await: timeout, controller, timer, merged config,
\* and the request chain built over the handlers live now
RequestStart(c, opt, stream) ==
    /\ pc[c] = "idle"
    /\ pc' = [pc EXCEPT ![c] = "reqChain"]
    /\ isStream' = [isStream EXCEPT ![c] = stream]
    /\ options' = [options EXCEPT ![c] = opt]
    /\ timeout' = [timeout EXCEPT ![c] = EffectiveTimeout(opt)]
    /\ timer' = [timer EXCEPT ![c] = ArmTimer(stream)]
    /\ aborted' = [aborted EXCEPT ![c] = FALSE]
    /\ config' = [config EXCEPT ![c] = [sigKept |-> TRUE, timeout |-> EffectiveTimeout(opt)]]
    /\ chain' = [chain EXCEPT ![c] = ForEach(requestInterceptors)]
    /\ settled' = [settled EXCEPT ![c] = Fulfilled]
    /\ UNCHANGED <<firedAt, fetched, response, outcome, regVars,
                   frameVars, mgrVars, cfgVars, urlVars, parseVars>>

Request(c, opt) ==
    /\ RequestStart(c, opt, FALSE)
    /\ UNCHANGED <<sse, ghostVars>>

\* faulty variant of Abort: one controller for the whole client, its abort
\* reaches every call
AbortAll(flags, c) == [d \in DOMAIN flags |-> TRUE]

\* controller.abort() of the call's own controller
Abort(flags, c) == [flags EXCEPT ![c] = TRUE]

\* the timer callback: controller.abort()
TimerFire(c) ==
    /\ timer[c] = "armed"
    /\ timer' = [timer EXCEPT ![c] = "fired"]
    /\ aborted' = Abort(aborted, c)
    /\ firedAt' = [firedAt EXCEPT ![c] = pc[c]]
    /\ UNCHANGED <<pc, isStream, options, timeout, fetched, config, chain, settled,
                   response, outcome, sse, regVars,
                   ghostVars, frameVars, mgrVars, cfgVars, urlVars, parseVars>>

\* faulty variant of StagePath: a stage without a rejection handler runs its
\* fulfilment function on a rejection
StagePathNoSkip(ok, hasRej) == IF ok \/ ~hasRej THEN "fulfilled" ELSE "rejected"

\* promise.then(fulfilled, rejected): which of the two functions runs, given
\* how the promise settled; with no rejected function a rejection passes by
StagePath(ok, hasRej) ==
    IF ok THEN "fulfilled" ELSE IF hasRej THEN "rejected" ELSE "skipped"

\* One stage of the request chain, configPromise.then(fulfilled, rejected),
\* for functions that throw values of the given kinds and may set
\* config.timeout to one of the given values.
\* fulfilled returns the config, returns one whose signal is no longer the
\* call's, or throws; rejected (when the stage has one) returns a config or
\* throws; a stage without rejected passes a rejection on.
ReqStageOver(c, kinds, timeouts) ==
    /\ pc[c] = "reqChain"
    /\ chain[c] # <<>>
    /\ chain' = [chain EXCEPT ![c] = Tail(@)]
    /\ IF StagePath(settled[c].ok, Head(chain[c]).hasRej) = "fulfilled"
       THEN \/ /\ \E keep \in BOOLEAN, ms \in timeouts \cup {config[c].timeout} :
                    config' = [config EXCEPT ![c].sigKept = @ /\ keep,
                                             ![c].timeout = ms]
               /\ UNCHANGED settled
            \/ /\ \E k \in kinds :
                    settled' = [settled EXCEPT ![c] = Rejected(Thrown(k))]
               /\ UNCHANGED config
       ELSE IF StagePath(settled[c].ok, Head(chain[c]).hasRej) = "rejected"
            THEN \/ /\ \E keep \in BOOLEAN, ms \in timeouts \cup {config[c].timeout} :
                         config' = [config EXCEPT ![c].sigKept = keep,
                                                  ![c].timeout = ms]
                    /\ settled' = [settled EXCEPT ![c] = Fulfilled]
                 \/ /\ \E k \in kinds :
                         settled' = [settled EXCEPT ![c] = Rejected(Thrown(k))]
                    /\ UNCHANGED config
            ELSE UNCHANGED <<config, settled>>
    /\ UNCHANGED <<pc, isStream, options, timeout, timer, aborted, firedAt, fetched, response, outcome,
                   sse, regVars,
                   frameVars, mgrVars, cfgVars, urlVars, parseVars>>

\* a stage whose functions leave config.timeout as it is
ReqStageWith(c, kinds) == ReqStageOver(c, kinds, {})

\* a stage whose functions throw whatever can be thrown
ReqStage(c) == ReqStageWith(c, ThrowKinds)

\* config = await configPromise, outside the try: a fulfilled chain goes on to
\* fetch(url, config); a rejected one leaves request() with the raw rejection
ReqChainDone(c) ==
    /\ pc[c] = "reqChain"
    /\ chain[c] = <<>>
    /\ IF settled[c].ok
       THEN /\ pc' = [pc EXCEPT ![c] = "fetching"]
            /\ fetched' = [fetched EXCEPT ![c] = TRUE]
            /\ UNCHANGED outcome
       ELSE /\ pc' = [pc EXCEPT ![c] = "done"]
            /\ outcome' = [outcome EXCEPT ![c] = Reject(settled[c].err)]
            /\ UNCHANGED fetched
    /\ UNCHANGED <<isStream, options, timeout, timer, aborted, firedAt, config, chain, settled,
                   response, sse, regVars,
                   ghostVars, frameVars, mgrVars, cfgVars, urlVars, parseVars>>

\* The catch block of request(): an error named AbortError becomes the timeout
\* error carrying the call's resolved timeout, a FetchClientError is thrown
\* again as it is, anything else becomes ERR_NETWORK with the error's message.
CatchError(error, ms) ==
    IF error.name = "AbortError"
    THEN FetchClientError(Msg("Request timeout after ms", ms), "ECONNABORTED", NoResp)
    ELSE IF error.fce
         THEN error
         ELSE FetchClientError(error.msg, "ERR_NETWORK", NoResp)

\* faulty variant of Catch: the timeout error reports config.timeout
CatchReportsConfig(c, error) ==
    /\ timer' = [timer EXCEPT ![c] = ClearTimeout(@)]
    /\ outcome' = [outcome EXCEPT ![c] = Reject(CatchError(error, config[c].timeout))]
    /\ pc' = [pc EXCEPT ![c] = "done"]

\* an exception inside the try: clearTimeout(timeoutId), then the rethrow
Catch(c, error) ==
    /\ timer' = [timer EXCEPT ![c] = ClearTimeout(@)]
    /\ outcome' = [outcome EXCEPT ![c] = Reject(CatchError(error, timeout[c]))]
    /\ pc' = [pc EXCEPT ![c] = "done"]

\* fetch observes the call's controller only while config.signal is still its signal
FetchSeesAbort(c) == config[c].sigKept /\ aborted[c]

\* timeoutId after the response arrived: if (!isStream && timeoutId !== undefined)
ClearOnResponse(stream, t) == IF ~stream /\ t # "none" THEN ClearTimeout(t) ELSE t

\* faulty variant of FetchRespond: a response that is not ok goes to the
\* status check at once, past the response interceptors
FetchRespondClassifyFirst(c, r) ==
    /\ pc[c] = "fetching"
    /\ ~FetchSeesAbort(c)
    /\ response' = [response EXCEPT ![c] = r]
    /\ timer' = [timer EXCEPT ![c] = ClearOnResponse(isStream[c], @)]
    /\ chain' = [chain EXCEPT ![c] =
                    IF ~isStream[c] /\ ~Ok(r) THEN <<>> ELSE ForEach(responseInterceptors)]
    /\ settled' = [settled EXCEPT ![c] = Fulfilled]
    /\ pc' = [pc EXCEPT ![c] = "resChain"]
    /\ UNCHANGED <<isStream, options, timeout, aborted, firedAt, fetched, config, outcome, sse, regVars,
                   frameVars, mgrVars, cfgVars, urlVars, parseVars>>

\* fetch resolves with a response: the timer is cleared and the response chain
\* is built over the handlers live now
FetchRespond(c, r) ==
    /\ pc[c] = "fetching"
    /\ ~FetchSeesAbort(c)
    /\ response' = [response EXCEPT ![c] = r]
    /\ timer' = [timer EXCEPT ![c] = ClearOnResponse(isStream[c], @)]
    /\ chain' = [chain EXCEPT ![c] = ForEach(responseInterceptors)]
    /\ settled' = [settled EXCEPT ![c] = Fulfilled]
    /\ pc' = [pc EXCEPT ![c] = "resChain"]
    /\ UNCHANGED <<isStream, options, timeout, aborted, firedAt, fetched, config, outcome, sse, regVars,
                   frameVars, mgrVars, cfgVars, urlVars, parseVars>>

\* faulty variant of FetchFail: the rejection of fetch is handed to the
\* response chain, whose rejection functions get to see it
FetchFailIntoChain(c, k) ==
    /\ pc[c] = "fetching"
    /\ ~FetchSeesAbort(c)
    /\ k = "AbortError" => ~config[c].sigKept
    /\ chain' = [chain EXCEPT ![c] = ForEach(responseInterceptors)]
    /\ settled' = [settled EXCEPT ![c] = Rejected(Thrown(k))]
    /\ pc' = [pc EXCEPT ![c] = "resChain"]
    /\ UNCHANGED <<isStream, options, timeout, timer, aborted, firedAt, fetched, config,
                   response, outcome, sse, regVars,
                   ghostVars, frameVars, mgrVars, cfgVars, urlVars, parseVars>>

\* fetch rejects for a reason of the transport: a network failure (TypeError),
\* or the abort of a signal an interceptor put in place of the call's
FetchFail(c, k) ==
    /\ pc[c] = "fetching"
    /\ ~FetchSeesAbort(c)
    /\ k = "AbortError" => ~config[c].sigKept
    /\ Catch(c, Thrown(k))
    /\ UNCHANGED <<isStream, options, timeout, aborted, firedAt, fetched, config, chain, settled,
                   response, sse, regVars,
                   ghostVars, frameVars, mgrVars, cfgVars, urlVars, parseVars>>

\* fetch rejects with AbortError because the call's controller was aborted
FetchAborted(c) ==
    /\ pc[c] = "fetching"
    /\ FetchSeesAbort(c)
    /\ Catch(c, Thrown("AbortError"))
    /\ UNCHANGED <<isStream, options, timeout, aborted, firedAt, fetched, config, chain, settled,
                   response, sse, regVars,
                   ghostVars, frameVars, mgrVars, cfgVars, urlVars, parseVars>>

\* One stage of the response chain, responsePromise.then(fulfilled, rejected),
\* for functions that return the given responses and throw the given kinds.
ResStageWith(c, values, kinds) ==
    /\ pc[c] = "resChain"
    /\ chain[c] # <<>>
    /\ chain' = [chain EXCEPT ![c] = Tail(@)]
    /\ IF StagePath(settled[c].ok, Head(chain[c]).hasRej) = "fulfilled"
       THEN \/ /\ \E r \in values \cup {response[c]} :
                    response' = [response EXCEPT ![c] = r]
               /\ UNCHANGED settled
            \/ /\ \E k \in kinds :
                    settled' = [settled EXCEPT ![c] = Rejected(Thrown(k))]
               /\ UNCHANGED response
       ELSE IF StagePath(settled[c].ok, Head(chain[c]).hasRej) = "rejected"
            THEN \/ /\ \E r \in values :
                         response' = [response EXCEPT ![c] = r]
                    /\ settled' = [settled EXCEPT ![c] = Fulfilled]
                 \/ /\ \E k \in kinds :
                         settled' = [settled EXCEPT ![c] = Rejected(Thrown(k))]
                    /\ UNCHANGED response
            ELSE UNCHANGED <<response, settled>>
    /\ UNCHANGED <<pc, isStream, options, timeout, timer, aborted, firedAt, fetched, config, outcome,
                   sse, regVars,
                   frameVars, mgrVars, cfgVars, urlVars, parseVars>>

\* a stage whose functions return any response and throw whatever can be thrown
ResStage(c) == ResStageWith(c, Responses, ThrowKinds)

\* response = await responsePromise, then the stream short-circuit, the status
\* check and the 204 case
ResChainDone(c) ==
    /\ pc[c] = "resChain"
    /\ chain[c] = <<>>
    /\ IF ~settled[c].ok
       THEN Catch(c, settled[c].err)
       ELSE IF isStream[c]
       THEN /\ outcome' = [outcome EXCEPT ![c] = Resolve(response[c])]
            /\ pc' = [pc EXCEPT ![c] = "done"]
            /\ UNCHANGED timer
       ELSE IF ~Ok(response[c])
       THEN /\ pc' = [pc EXCEPT ![c] = "errBody"]
            /\ UNCHANGED <<outcome, timer>>
       ELSE /\ outcome' = [outcome EXCEPT ![c] =
                              Resolve(IF response[c].status = 204
                                      THEN NullResult ELSE response[c])]
            /\ pc' = [pc EXCEPT ![c] = "done"]
            /\ UNCHANGED timer
    /\ UNCHANGED <<isStream, options, timeout, aborted, firedAt, fetched, config, chain, settled,
                   response, sse, regVars,
                   ghostVars, frameVars, mgrVars, cfgVars, urlVars, parseVars>>

\* faulty variant of ErrorMessage: errorBody?.message || ..., an empty message
\* falls back to the generic one
ErrorMessageOr(r) ==
    IF r.body = "json_msg" THEN Msg("not found", 0)
    ELSE Msg("Request failed with status", r.status)

\* errorBody?.message ?? `Request failed with status ${response.status}`,
\* errorBody being the JSON of the body, or null when it does not decode
ErrorMessage(r) ==
    IF r.body = "json_msg" THEN Msg("not found", 0)
    ELSE IF r.body = "json_emptymsg" THEN Msg("", 0)
    ELSE Msg("Request failed with status", r.status)

\* await response.json().catch(() => null), throw new FetchClientError(...,
\* 'ERR_BAD_RESPONSE', undefined, response), caught by the catch block
ErrBody(c) ==
    /\ pc[c] = "errBody"
    /\ Catch(c, FetchClientError(ErrorMessage(response[c]), "ERR_BAD_RESPONSE",
                                 response[c]))
    /\ UNCHANGED <<isStream, options, timeout, aborted, firedAt, fetched, config, chain, settled,
                   response, sse, regVars,
                   ghostVars, frameVars, mgrVars, cfgVars, urlVars, parseVars>>

\* ------------------------------------------------ SSE connection manager
\* What a callback does when invoked. onOpen and onMessage may return, throw,
\* call connection.close() and return, or call it and then throw; onError and
\* onClose return, possibly after calling connection.close().
HandlerBeh == {"return", "throw", "close", "closeThrow"}
QuietBeh == {"return", "close"}

\* connection.close() past its guard: the flag, the state, reader.cancel() and
\* release when a reader is held, then onClose
CloseBody(s) ==
    [s EXCEPT !.isClosed = TRUE,
              !.readyState = "closed",
              !.cancelled = @ \/ (s.reader = "held"),
              !.reader = "null",
              !.nClose = IF @ < 2 THEN @ + 1 ELSE @,
              !.closeCalls = @ + 1]

\* connection.close() called from inside onClose
CloseNested(s) == IF s.isClosed THEN [s EXCEPT !.closeCalls = @ + 1] ELSE CloseBody(s)

\* faulty variant of Close: no isClosed guard
CloseUnguarded(s, bClose) ==
    IF bClose = "close" /\ ~s.isClosed THEN CloseNested(CloseBody(s)) ELSE CloseBody(s)

\* connection.close(): if (isClosed) return; ...; onClose?.() doing bClose
Close(s, bClose) ==
    IF s.isClosed
    THEN [s EXCEPT !.closeCalls = @ + 1]
    ELSE IF bClose = "close" THEN CloseNested(CloseBody(s)) ELSE CloseBody(s)

\* error instanceof Error ? error : new Error(String(error))
Normalize(error) ==
    IF error.isError THEN error
    ELSE [error EXCEPT !.isError = TRUE, !.name = "Error", !.msg = Msg("String(error)", 0)]

\* throw new Error(...) raised by the manager itself
LocalError(text, n) == [Thrown("Error") EXCEPT !.msg = Msg(text, n)]

\* faulty variant of TaskCatch: the error is reported and the connection left as it is
TaskCatchNoClose(s, error, bErr, bClose) ==
    IF s.isClosed
    THEN [s EXCEPT !.task = "done", !.caught = "closed"]
    ELSE [s EXCEPT !.nError = @ + 1, !.delivered = Normalize(error),
                   !.caught = "live", !.task = "done"]

\* the catch block of the background task; the task ends after it
TaskCatch(s, error, bErr, bClose) ==
    IF s.isClosed
    THEN [s EXCEPT !.task = "done", !.caught = "closed"]
    ELSE LET s1 == [s EXCEPT !.nError = @ + 1,
                             !.delivered = Normalize(error),
                             !.caught = "live",
                             !.late = IF s.isClosed THEN @ \cup {"onError"} ELSE @]
             s2 == IF bErr = "close" THEN Close(s1, bClose) ELSE s1
         IN  [Close(s2, bClose) EXCEPT !.task = "done"]

\* faulty variant of AfterRequest: response.ok is not tested before opening
AfterRequestNoOkCheck(s, out, bOpen, k, bErr, bClose) ==
    IF out.state = "rejected"
    THEN TaskCatch(s, out.err, bErr, bClose)
    ELSE IF ~HasBody(out.value)
    THEN TaskCatch(s, LocalError("ReadableStream not supported", 0), bErr, bClose)
    ELSE LET s1 == [s EXCEPT !.readyState = "open", !.nOpen = @ + 1,
                             !.late = IF s.isClosed THEN @ \cup {"onOpen"} ELSE @]
             s2 == IF bOpen \in {"close", "closeThrow"} THEN Close(s1, bClose) ELSE s1
         IN  IF bOpen \in {"throw", "closeThrow"}
             THEN TaskCatch(s2, Thrown(k), bErr, bClose)
             ELSE LET s3 == [s2 EXCEPT !.reader = "held", !.acquired = TRUE]
                  IN  IF s3.isClosed
                      THEN [Close(s3, bClose) EXCEPT !.task = "done"]
                      ELSE [s3 EXCEPT !.task = "reading"]

\* The task after `await request(...)`: the body and ok checks, readyState =
\* 'open', onOpen doing bOpen, getReader(), and the first test of the loop.
AfterRequest(s, out, bOpen, k, bErr, bClose) ==
    IF out.state = "rejected"
    THEN TaskCatch(s, out.err, bErr, bClose)
    ELSE IF ~HasBody(out.value)
    THEN TaskCatch(s, LocalError("ReadableStream not supported", 0), bErr, bClose)
    ELSE IF ~Ok(out.value)
    THEN TaskCatch(s, LocalError("SSE error:", out.value.status), bErr, bClose)
    ELSE LET s1 == [s EXCEPT !.readyState = "open", !.nOpen = @ + 1,
                             !.late = IF s.isClosed THEN @ \cup {"onOpen"} ELSE @]
             s2 == IF bOpen \in {"close", "closeThrow"} THEN Close(s1, bClose) ELSE s1
         IN  IF bOpen \in {"throw", "closeThrow"}
             THEN TaskCatch(s2, Thrown(k), bErr, bClose)
             ELSE LET s3 == [s2 EXCEPT !.reader = "held", !.acquired = TRUE]
                  IN  IF s3.isClosed
                      THEN [Close(s3, bClose) EXCEPT !.task = "done"]
                      ELSE [s3 EXCEPT !.task = "reading"]

\* for (const part of parts) ... onMessage(message): one behaviour per frame
\* that parses to a message; a throw leaves the loop
RECURSIVE Dispatch(_, _, _)
Dispatch(s, behs, bClose) ==
    IF behs = <<>>
    THEN [s |-> s, threw |-> FALSE]
    ELSE LET s1 == [s EXCEPT !.nMessage = @ + 1,
                             !.late = IF s.isClosed THEN @ \cup {"onMessage"} ELSE @]
             s2 == IF Head(behs) \in {"close", "closeThrow"} THEN Close(s1, bClose) ELSE s1
         IN  IF Head(behs) \in {"throw", "closeThrow"}
             THEN [s |-> s2, threw |-> TRUE]
             ELSE Dispatch(s2, Tail(behs), bClose)

\* reader.read() gave a chunk: dispatch its frames, then test the loop again
AfterChunk(s, behs, k, bErr, bClose) ==
    LET d == Dispatch([s EXCEPT !.reads = @ + 1], behs, bClose)
    IN  IF d.threw
        THEN TaskCatch(d.s, Thrown(k), bErr, bClose)
        ELSE IF d.s.isClosed
        THEN [Close(d.s, bClose) EXCEPT !.task = "done"]
        ELSE d.s

\* faulty variant of Connecting: the handle starts out 'open'
ConnectingOpen == [NoSse EXCEPT !.on = TRUE, !.readyState = "open", !.task = "request"]

\* the closure state sse() sets up: readyState 'connecting', no reader,
\* isClosed false, the task about to call request()
Connecting == [NoSse EXCEPT !.on = TRUE, !.readyState = "connecting", !.task = "request"]

\* sse(): the closure state, then the task runs request(..., true) up to its
\* first await; the handle is returned at once
Sse(c, opt) ==
    /\ RequestStart(c, opt, TRUE)
    /\ sse' = [sse EXCEPT ![c] = Connecting]
    /\ UNCHANGED ghostVars

pipeVars == <<pc, isStream, options, timeout, timer, aborted, firedAt, fetched, config,
              chain, settled, response, outcome>>

\* the caller (or any code holding the handle) calls connection.close()
UserClose(c) ==
    /\ sse[c].on
    /\ sse[c].closeCalls < MaxCloseCalls
    /\ \E bClose \in QuietBeh : sse' = [sse EXCEPT ![c] = Close(@, bClose)]
    /\ UNCHANGED <<pipeVars, regVars,
                   ghostVars, frameVars, mgrVars, cfgVars, urlVars, parseVars>>

\* the task resumes after request() settled
SseConnected(c) ==
    /\ sse[c].task = "request"
    /\ pc[c] = "done"
    /\ \E bOpen \in HandlerBeh, k \in {"Error", "string"}, bErr \in QuietBeh,
          bClose \in QuietBeh :
          sse' = [sse EXCEPT ![c] = AfterRequest(@, outcome[c], bOpen, k, bErr, bClose)]
    /\ UNCHANGED <<pipeVars, regVars,
                   ghostVars, frameVars, mgrVars, cfgVars, urlVars, parseVars>>

Throws(b) == b \in {"throw", "closeThrow"}

\* The onMessage calls one chunk can lead to: at most MaxFrames of them, and
\* only the last one may throw (the loop is left by the throw).
MessageCalls ==
    {behs \in UNION {[1..n -> HandlerBeh] : n \in 0..MaxFrames} :
        \A i \in 1..Len(behs) : Throws(behs[i]) => i = Len(behs)}

\* faulty variant of StreamDone: the loop is left and close() is not called
StreamDoneNoClose(s, bClose) == [s EXCEPT !.task = "done", !.eof = TRUE]

\* reader.read() gave done on a connection not closed: break, then
\* connection.close() after the loop
StreamDone(s, bClose) == [Close(s, bClose) EXCEPT !.task = "done", !.eof = TRUE]

\* reader.read() settles: a chunk of frames, done (also what a cancelled
\* reader's pending read gives), or a rejection
SseRead(c) ==
    /\ sse[c].task = "reading"
    /\ IF sse[c].isClosed
       THEN \E bClose \in QuietBeh :
               sse' = [sse EXCEPT ![c] = [Close(@, bClose) EXCEPT !.task = "done"]]
       ELSE \/ \E bClose \in QuietBeh :
                  sse' = [sse EXCEPT ![c] = StreamDone(@, bClose)]
            \/ \E bErr \in QuietBeh, bClose \in QuietBeh :
                  sse' = [sse EXCEPT ![c] = TaskCatch(@, Thrown("Error"), bErr, bClose)]
            \/ /\ sse[c].reads < MaxReads
               /\ \E behs \in MessageCalls, bClose \in QuietBeh :
                    \E k \in (IF \E i \in 1..Len(behs) : Throws(behs[i])
                              THEN {"Error", "string"} ELSE {"Error"}),
                       bErr \in (IF \E i \in 1..Len(behs) : Throws(behs[i])
                                 THEN QuietBeh ELSE {"return"}) :
                       sse' = [sse EXCEPT ![c] = AfterChunk(@, behs, k, bErr, bClose)]
    /\ UNCHANGED <<pipeVars, regVars,
                   ghostVars, frameVars, mgrVars, cfgVars, urlVars, parseVars>>

\* No call has been started yet. A chain is built from the registry when
\* request() starts (request chain) and when the response arrives (response
\* chain); in this specification the registries are filled before the call,
\* which gives a call every chain it can be given.
Idle == \A c \in CallIds : pc[c] = "idle"

Next ==
    \/ Idle /\ \E isReq \in BOOLEAN, rej \in BOOLEAN : Use(isReq, rej)
    \/ Idle /\ \E isReq \in BOOLEAN, id \in 1..MaxSlots : Eject(isReq, id)
    \/ \E c \in CallIds, opt \in TimeoutOptions : Request(c, opt)
    \/ \E c \in CallIds, opt \in TimeoutOptions : Sse(c, opt)
    \/ \E c \in CallIds : UserClose(c)
    \/ \E c \in CallIds : SseConnected(c)
    \/ \E c \in CallIds : SseRead(c)
    \/ \E c \in CallIds : TimerFire(c)
    \/ \E c \in CallIds : ReqStage(c) /\ UNCHANGED ghostVars
    \/ \E c \in CallIds : ReqChainDone(c)
    \/ \E c \in CallIds, r \in Responses : FetchRespond(c, r) /\ UNCHANGED ghostVars
    \/ \E c \in CallIds, k \in {"Error", "AbortError"} : FetchFail(c, k)
    \/ \E c \in CallIds : FetchAborted(c)
    \/ \E c \in CallIds : ResStage(c) /\ UNCHANGED ghostVars
    \/ \E c \in CallIds : ResChainDone(c)
    \/ \E c \in CallIds : ErrBody(c)

Spec == Init /\ [][Next]_vars

\* a fetch whose signal has been aborted does reject
FairSpec == Spec /\ \A c \in CallIds : WF_vars(FetchAborted(c))

\* ============================================ the SSE read loop, as text
\* A text is the sequence of its characters; the bytes of a stream are the
\* UTF-8 encoding of its text, where "U+00E9" stands for a character of two
\* bytes (C3 A9) and every other character takes one byte.
MaxBlocks == 2         \* complete blocks one stream carries

DataPrefix == <<"d", "a", "t", "a", ":", " ">>
EventPrefix == <<"e", "v", "e", "n", "t", ":", " ">>
IdPrefix == <<"i", "d", ":", " ">>
RetryPrefix == <<"r", "e", "t", "r", "y", ":", " ">>
Delimiter == <<"\n", "\n">>

\* String.prototype.startsWith and slice(n)
StartsWith(text, prefix) ==
    Len(text) >= Len(prefix) /\ SubSeq(text, 1, Len(prefix)) = prefix
Slice(text, n) == SubSeq(text, n + 1, Len(text))

\* the place of the first occurrence of sep in text, 0 if there is none
IndexOf(text, sep) ==
    LET at == {i \in 1..(Len(text) - Len(sep) + 1) :
                  \A k \in 1..Len(sep) : text[i + k - 1] = sep[k]}
    IN  IF at = {} THEN 0 ELSE CHOOSE i \in at : \A j \in at : i <= j

\* String.prototype.split(sep): never empty, the last element is what follows
\* the last separator
RECURSIVE Split(_, _)
Split(text, sep) ==
    LET i == IndexOf(text, sep)
    IN  IF i = 0 THEN <<text>>
        ELSE <<SubSeq(text, 1, i - 1)>> \o Split(Slice(text, i + Len(sep) - 1), sep)

\* !part.trim()
TrimIsEmpty(text) == \A i \in 1..Len(text) : text[i] \in {" ", "\n", "\t"}

\* TextEncoder: the bytes of a text
RECURSIVE Utf8(_)
Utf8(text) ==
    IF text = <<>> THEN <<>>
    ELSE (IF Head(text) = "U+00E9" THEN <<"C3", "A9">> ELSE <<Head(text)>>)
         \o Utf8(Tail(text))

\* a byte that contributes a character of its own
IsCharacter(ch) == ch # ""

\* UTF-8 decoding of bytes that may end inside a character: the text, and the
\* lead byte left over at the end; C3 A9 is one character, a C3 or A9 that
\* fits nowhere becomes U+FFFD
DecodeBytes(bytes) ==
    LET n == Len(bytes)
        cut == n >= 1 /\ bytes[n] = "C3"
        m == IF cut THEN n - 1 ELSE n
        ch(i) == IF bytes[i] = "C3"
                 THEN (IF bytes[i + 1] = "A9" THEN "U+00E9" ELSE "U+FFFD")
                 ELSE IF bytes[i] = "A9"
                 THEN (IF i > 1 /\ bytes[i - 1] = "C3" THEN "" ELSE "U+FFFD")
                 ELSE bytes[i]
    IN  [text |-> SelectSeq([i \in 1..m |-> ch(i)], IsCharacter),
         held |-> IF cut THEN <<"C3">> ELSE <<>>]

\* decoder.decode(value, { stream: true }): the bytes held back come first
Decode(held, value) == DecodeBytes(held \o value)

\* a field of a message that may be missing
Absent == [set |-> FALSE, v |-> <<>>]
Present(v) == [set |-> TRUE, v |-> <<v>>]

DigitValue(ch) ==
    CASE ch = "0" -> 0 [] ch = "1" -> 1 [] ch = "2" -> 2 [] ch = "3" -> 3 [] ch = "4" -> 4
      [] ch = "5" -> 5 [] ch = "6" -> 6 [] ch = "7" -> 7 [] ch = "8" -> 8 [] ch = "9" -> 9
      [] OTHER -> -1

\* Number.parseInt(text, 10) of an unsigned text: the number its leading digits
\* spell after leading blanks, NaN when there is none
RECURSIVE LeadingDigits(_, _, _)
LeadingDigits(text, any, n) ==
    IF text # <<>> /\ DigitValue(Head(text)) >= 0
    THEN LeadingDigits(Tail(text), TRUE, 10 * n + DigitValue(Head(text)))
    ELSE [nan |-> ~any, n |-> n]
RECURSIVE ParseInt(_)
ParseInt(text) ==
    IF text # <<>> /\ Head(text) \in {" ", "\t", "\n"}
    THEN ParseInt(Tail(text))
    ELSE LeadingDigits(text, FALSE, 0)

\* const message: SSEMessage = { data: '' }
EmptyMessage == [data |-> <<>>, event |-> Absent, id |-> Absent, retry |-> Absent]

\* faulty variant of ParseLine: every data line is appended after a newline,
\* the first one too
ParseLineNewlineFirst(message, line) ==
    IF StartsWith(line, DataPrefix)
    THEN [message EXCEPT !.data = @ \o <<"\n">> \o Slice(line, 6)]
    ELSE IF StartsWith(line, EventPrefix)
    THEN [message EXCEPT !.event = Present(Slice(line, 7))]
    ELSE IF StartsWith(line, IdPrefix)
    THEN [message EXCEPT !.id = Present(Slice(line, 4))]
    ELSE IF StartsWith(line, RetryPrefix)
    THEN [message EXCEPT !.retry = Present(ParseInt(Slice(line, 7)))]
    ELSE message

\* the body of parseSSEMessage's loop, for one line
ParseLine(message, line) ==
    IF StartsWith(line, DataPrefix)
    THEN [message EXCEPT !.data =
             @ \o (IF @ # <<>> THEN <<"\n">> ELSE <<>>) \o Slice(line, 6)]
    ELSE IF StartsWith(line, EventPrefix)
    THEN [message EXCEPT !.event = Present(Slice(line, 7))]
    ELSE IF StartsWith(line, IdPrefix)
    THEN [message EXCEPT !.id = Present(Slice(line, 4))]
    ELSE IF StartsWith(line, RetryPrefix)
    THEN [message EXCEPT !.retry = Present(ParseInt(Slice(line, 7)))]
    ELSE message

RECURSIVE ParseLines(_, _)
ParseLines(message, lines) ==
    IF lines = <<>> THEN message
    ELSE ParseLines(ParseLine(message, Head(lines)), Tail(lines))

\* faulty variant of MessageOrNull: the message is returned whatever its data
MessageAlways(message) == <<message>>

\* return message.data ? message : null; null is the empty sequence, a
\* message the sequence holding it
MessageOrNull(message) == IF message.data # <<>> THEN <<message>> ELSE <<>>

parseSSEMessage(text) == MessageOrNull(ParseLines(EmptyMessage, Split(text, <<"\n">>)))

\* for (const part of parts): what onMessage is called with, in order
RECURSIVE Frames(_)
Frames(parts) ==
    IF parts = <<>> THEN <<>>
    ELSE (IF TrimIsEmpty(Head(parts)) THEN <<>> ELSE parseSSEMessage(Head(parts)))
         \o Frames(Tail(parts))

\* faulty variant of Retain: the text after the last delimiter is dropped
RetainNothing(parts) == <<>>

\* buffer = parts.pop() ?? ''
Retain(parts) == parts[Len(parts)]

\* parts after the pop: the complete segments
Complete(parts) == SubSeq(parts, 1, Len(parts) - 1)

\* One turn of the loop: reader.read() gives the next n bytes, they are
\* decoded, the buffer is split, the complete segments dispatched to an
\* onMessage that records them and returns.
FrameRead(n) ==
    /\ ~ended
    /\ pos + n <= Len(wire)
    /\ LET d == Decode(pending, SubSeq(wire, pos + 1, pos + n))
           parts == Split(buffer \o d.text, Delimiter)
       IN  /\ pending' = d.held
           /\ buffer' = Retain(parts)
           /\ messages' = messages \o Frames(Complete(parts))
    /\ pos' = pos + n
    /\ UNCHANGED <<wire, ended>>

\* faulty variant of FrameEnd: what the buffer still holds is parsed and
\* dispatched when the stream ends
FrameEndFlush ==
    /\ ~ended
    /\ pos = Len(wire)
    /\ ended' = TRUE
    /\ messages' = messages \o
          (IF TrimIsEmpty(buffer) THEN <<>> ELSE parseSSEMessage(buffer))
    /\ buffer' = <<>>
    /\ UNCHANGED <<wire, pos, pending>>

\* reader.read() gives done: the loop is left
FrameEnd ==
    /\ ~ended
    /\ pos = Len(wire)
    /\ ended' = TRUE
    /\ UNCHANGED <<wire, pos, pending, buffer, messages>>

\* the lines of a block joined by newlines
RECURSIVE JoinLines(_)
JoinLines(lines) ==
    IF lines = <<>> THEN <<>>
    ELSE IF Len(lines) = 1 THEN Head(lines)
    ELSE Head(lines) \o <<"\n">> \o JoinLines(Tail(lines))

\* The blocks streams are made of: two data lines; an event and a data line
\* whose payload is a character of two bytes; event, id and retry but no
\* data; an unknown field and an empty data line; no line at all.
TwoDataBlock == JoinLines(<<DataPrefix \o <<"a">>, DataPrefix \o <<"b">>>>)
EventBlock == JoinLines(<<EventPrefix \o <<"p">>, DataPrefix \o <<"U+00E9">>>>)
NoDataBlock ==
    JoinLines(<<EventPrefix \o <<"p">>, IdPrefix \o <<"7">>, RetryPrefix \o <<"5">>>>)
UnknownBlock == JoinLines(<<<<":", "c">>, DataPrefix>>)
BlankBlock == <<>>
FrameBlocks == {TwoDataBlock, EventBlock, NoDataBlock, UnknownBlock, BlankBlock}

\* what may follow the last delimiter: nothing, or an event that is not ended
FrameTails == {<<>>, DataPrefix \o <<"z">>}

\* the bytes of blocks, each followed by the delimiter
RECURSIVE Terminated(_)
Terminated(blocks) ==
    IF blocks = <<>> THEN <<>>
    ELSE Utf8(Head(blocks) \o Delimiter) \o Terminated(Tail(blocks))

\* the stream of the round-trip example:
\* "data: a\ndata: b\n\nevent: ping\ndata: {\"x\":1}\n\n"
ExampleSecond ==
    JoinLines(<<EventPrefix \o <<"p", "i", "n", "g">>,
                DataPrefix \o <<"{", "\"", "x", "\"", ":", "1", "}">>>>)
ExampleWire == Terminated(<<TwoDataBlock, ExampleSecond>>)

\* the streams: at most MaxBlocks blocks and a tail, and the example
FrameWires ==
    {Terminated(blocks) \o Utf8(tail) :
        blocks \in UNION {[1..n -> FrameBlocks] : n \in 0..MaxBlocks}, tail \in FrameTails}
    \cup {ExampleWire}

FrameInit ==
    /\ ClientInit
    /\ MgrIdle
    /\ CfgIdle
    /\ UrlIdle
    /\ ParseIdle
    /\ wire \in FrameWires
    /\ pos = 0
    /\ pending = <<>>
    /\ buffer = <<>>
    /\ messages = <<>>
    /\ ended = FALSE

clientVars == <<requestInterceptors, responseInterceptors, pc, isStream, options, timeout,
                timer, aborted, firedAt, fetched, config, chain, settled, response,
                outcome, sse, trace, running>>

FrameNext ==
    \/ \E n \in 1..Len(wire) : FrameRead(n) /\ UNCHANGED <<clientVars, mgrVars, cfgVars, urlVars, parseVars>>
    \/ FrameEnd /\ UNCHANGED <<clientVars, mgrVars, cfgVars, urlVars, parseVars>>

FrameSpec == FrameInit /\ [][FrameNext]_vars

\* ================================= one interceptor manager, on its own
\* Handles are the code's: use returns handler.length - 1, counted from 0;
\* the handler of handle h sits in slot h + 1 of the model's list.
MaxHandles == 3        \* use calls made on the manager

SlotOf(id) == id + 1

\* the ids eject is called with: negative, issued or not, past the end
EjectIds == (0 - 1)..MaxHandles

\* use(fulfilled, rejected): push, return the new last index
ManagerUse(rej) ==
    /\ Len(issued) < MaxHandles
    /\ registry' = UsePush(registry, rej)
    /\ issued' = Append(issued, [handle |-> Len(registry') - 1, rej |-> rej])
    /\ lastOp' = [op |-> "use", id |-> Len(registry') - 1]
    /\ UNCHANGED ejected

\* the handles use has returned so far
Handles == {issued[i].handle : i \in 1..Len(issued)}

\* eject(id); an id is a handle when use has returned it
ManagerEject(id) ==
    /\ registry' = EjectSlot(registry, SlotOf(id))
    /\ ejected' = ejected \cup ({id} \cap Handles)
    /\ lastOp' = [op |-> "eject", id |-> id]
    /\ UNCHANGED issued

ManagerNext ==
    \/ \E rej \in BOOLEAN : ManagerUse(rej) /\ UNCHANGED <<clientVars, frameVars, cfgVars, urlVars, parseVars>>
    \/ \E id \in EjectIds : ManagerEject(id) /\ UNCHANGED <<clientVars, frameVars, cfgVars, urlVars, parseVars>>

ManagerSpec == Init /\ [][ManagerNext]_vars

\* ======================= the interceptor chains, with their stages logged
\* The pipeline of one non-streaming call over registries filled beforehand,
\* its timer included.
\* A stage is two steps, the start of the function promise.then picks and the
\* settling of what it returned, so that a stage may take any time; `trace`
\* logs each stage, and the response fetch gave, in the order they happen.
MaxStages == 3         \* slots the two registries hold together

\* the contents a slot may have: a handler with or without a rejection
\* function, or the null eject leaves behind
Slots == {Handler(TRUE), Handler(FALSE), Tombstone}
SlotLists == UNION {[1..n -> Slots] : n \in 0..MaxStages}

\* the responses seen in this specification: ok with a body, 204, not ok;
\* and what is thrown: an Error
ChainResponses ==
    {[status |-> 200, body |-> "stream"], [status |-> 204, body |-> "nobody"],
     [status |-> 404, body |-> "json_msg"]}
ChainThrows == {"Error"}

\* the config request() starts the request chain with
MergedConfig == [sigKept |-> TRUE, timeout |-> DefaultTimeout]

StagePhase(c) == IF pc[c] = "reqChain" THEN "request" ELSE "response"

\* a stage's function is called: the fulfilment function with the value, the
\* rejection function with the error; a rejection passing by calls neither
StageStart(c) ==
    /\ pc[c] \in {"reqChain", "resChain"}
    /\ chain[c] # <<>>
    /\ ~running[c]
    /\ running' = [running EXCEPT ![c] = TRUE]
    /\ trace' = [trace EXCEPT ![c] =
          Append(@, [phase |-> StagePhase(c),
                     id |-> Head(chain[c]).id,
                     path |-> StagePath(settled[c].ok, Head(chain[c]).hasRej),
                     got |-> IF ~settled[c].ok THEN <<settled[c].err>>
                             ELSE IF pc[c] = "reqChain" THEN <<config[c]>>
                             ELSE <<response[c]>>,
                     done |-> FALSE, ok |-> FALSE, gave |-> <<>>])]
    /\ UNCHANGED <<requestInterceptors, responseInterceptors, pc, isStream, options,
                   timeout, timer, aborted, firedAt, fetched, config, chain, settled,
                   response, outcome, sse, frameVars, mgrVars, cfgVars, urlVars, parseVars>>

\* the log entry of the running stage, once it has settled as the primed
\* state says
Settle(c, value) ==
    /\ running' = [running EXCEPT ![c] = FALSE]
    /\ trace' = [trace EXCEPT ![c][Len(trace[c])] =
          [@ EXCEPT !.done = TRUE,
                    !.ok = settled'[c].ok,
                    !.gave = IF settled'[c].ok THEN <<value>> ELSE <<settled'[c].err>>]]

ReqStageFinish(c) ==
    /\ running[c]
    /\ ReqStageWith(c, ChainThrows)
    /\ Settle(c, config'[c])

ResStageFinish(c) ==
    /\ running[c]
    /\ ResStageWith(c, ChainResponses, ChainThrows)
    /\ Settle(c, response'[c])

\* fetch resolves with r
FetchLogged(c, r) ==
    /\ FetchRespond(c, r)
    /\ trace' = [trace EXCEPT ![c] =
          Append(@, [phase |-> "fetch", id |-> 0, path |-> "fetch", got |-> <<>>,
                     done |-> TRUE, ok |-> TRUE, gave |-> <<r>>])]
    /\ UNCHANGED running

ChainInit ==
    /\ CallsInit
    /\ FrameIdle
    /\ MgrIdle
    /\ CfgIdle
    /\ UrlIdle
    /\ ParseIdle
    /\ requestInterceptors \in SlotLists
    /\ responseInterceptors \in SlotLists
    /\ Len(requestInterceptors) + Len(responseInterceptors) <= MaxStages

ChainNext ==
    \/ \E c \in CallIds : Request(c, [given |-> FALSE, ms |-> 0]) /\ UNCHANGED ghostVars
    \/ \E c \in CallIds : TimerFire(c)
    \/ \E c \in CallIds : StageStart(c)
    \/ \E c \in CallIds : ReqStageFinish(c)
    \/ \E c \in CallIds : ReqChainDone(c)
    \/ \E c \in CallIds, r \in ChainResponses : FetchLogged(c, r)
    \/ \E c \in CallIds : FetchFail(c, "Error")
    \/ \E c \in CallIds : FetchAborted(c)
    \/ \E c \in CallIds : ResStageFinish(c)
    \/ \E c \in CallIds : ResChainDone(c)
    \/ \E c \in CallIds : ErrBody(c)

ChainSpec == ChainInit /\ [][ChainNext]_vars

\* ======================== the method wrappers and the config of request()
\* Headers are JavaScript objects: entries in insertion order, one per key,
\* keys told apart by their exact spelling. One step is a wrapper call up to
\* the request chain, a request interceptor, the fetch call, or the response
\* with everything the wrapper does after it.
MaxCalls == 2          \* wrapper calls made on the client

Entry(k, v) == [k |-> k, v |-> v]
Keys(h) == {h[i].k : i \in 1..Len(h)}
Has(h, k) == k \in Keys(h)
\* h[k], where the key is present
Get(h, k) == h[CHOOSE i \in 1..Len(h) : h[i].k = k].v

\* faulty variant of Put: a key already present keeps its value
PutKeepFirst(h, k, v) == IF k \in {h[i].k : i \in 1..Len(h)} THEN h ELSE Append(h, Entry(k, v))

\* h[k] = v: a present key keeps its place and takes the value, a new key
\* goes last
Put(h, k, v) ==
    IF k \in {h[i].k : i \in 1..Len(h)}
    THEN [i \in 1..Len(h) |-> IF h[i].k = k THEN Entry(k, v) ELSE h[i]]
    ELSE Append(h, Entry(k, v))

\* { ...target, ...src }
RECURSIVE Spread(_, _)
Spread(target, src) ==
    IF src = <<>> THEN target
    ELSE Spread(Put(target, Head(src).k, Head(src).v), Tail(src))

\* the header names the model uses, with their lower-case form
Lower(k) ==
    CASE k \in {"Content-Type", "content-type"} -> "content-type"
      [] k \in {"Accept", "accept"} -> "accept"
      [] k = "Cache-Control" -> "cache-control"
      [] OTHER -> k

\* new Headers(init) as fetch builds it from a plain object: the entries are
\* appended in order under their lower-case name, a name met again gets the
\* further value added to its list
RECURSIVE Wire(_, _)
Wire(list, h) ==
    IF h = <<>> THEN list
    ELSE LET name == Lower(Head(h).k)
             next == IF Has(list, name)
                     THEN [i \in 1..Len(list) |->
                              IF list[i].k = name
                              THEN Entry(name, Append(list[i].v, Head(h).v))
                              ELSE list[i]]
                     ELSE Append(list, Entry(name, <<Head(h).v>>))
         IN  Wire(next, Tail(h))

\* ----------------------------------------------------------------- bodies
FormData == [type |-> "FormData", v |-> <<"form">>]
Zero == [type |-> "number", v |-> <<"0">>]
False == [type |-> "boolean", v |-> <<"false">>]
EmptyString == [type |-> "string", v |-> <<>>]
Object == [type |-> "object", v |-> <<"{", "\"", "a", "\"", ":", "1", "}">>]
Text(chars) == [type |-> "string", v |-> chars]

\* what the caller hands post, put and patch as body
Bodies == {Undefined, FormData, Zero, False, EmptyString, Object}

\* JSON.stringify of a value that is not undefined: a string is quoted, the
\* text of any other value is its source text
JsonStringify(b) ==
    IF b.type = "string" THEN <<"\"">> \o b.v \o <<"\"">> ELSE b.v

\* the value in a condition: of the bodies, undefined, 0, false and '' are falsy
Truthy(b) == b \notin {Undefined, Zero, False, EmptyString}

\* bodyToSend of post, put and patch
BodyToSend(body) ==
    IF body = FormData THEN body
    ELSE IF Truthy(body) THEN Text(JsonStringify(body))
    ELSE Undefined

\* ------------------------------------------------------ request(): config
\* contentTypeRaw
ContentTypeRaw(body) ==
    IF body = FormData THEN <<>> ELSE <<Entry("Content-Type", "application/json")>>

\* faulty variant of MergeHeaders: the layers are written into defaultHeaders
\* itself (Object.assign(defaultHeaders, ...)) and config.headers is that object
MergeHeadersInPlace(auto, defaults, own) ==
    [object |-> "defaults", entries |-> Spread(Spread(auto, defaults), own)]

\* headers: { ...contentTypeRaw, ...defaultHeaders, ...headers }, a new object
MergeHeaders(auto, defaults, own) ==
    [object |-> "fresh", entries |-> Spread(Spread(auto, defaults), own)]

\* the config request() builds from its options: credentials of the client
\* unless customConfig carries its own, method and body of customConfig
RequestConfig(cl, opts, stream) ==
    LET h == MergeHeaders(ContentTypeRaw(opts.body), cl.headers, opts.headers)
    IN  [method |-> opts.method,
         body |-> opts.body,
         credentials |-> IF opts.credentials = "absent" THEN cl.credentials
                         ELSE opts.credentials,
         headers |-> h.entries,
         isStream |-> stream,
         object |-> h.object]

\* what a write through config.headers does to defaultHeaders: nothing unless
\* they are one object
Aliased(cfg, cl) ==
    IF cfg.object = "defaults" THEN [cl EXCEPT !.headers = cfg.headers] ELSE cl

\* -------------------------------------------------------------- wrappers
Wrappers == {"get", "post", "put", "patch", "delete", "sse"}
WithBody == {"post", "put", "patch"}

Method(w) ==
    CASE w = "get" -> "GET"
      [] w = "post" -> "POST"
      [] w = "put" -> "PUT"
      [] w = "patch" -> "PATCH"
      [] w = "delete" -> "DELETE"
      [] w = "sse" -> "GET"

\* the two headers sse() writes over the caller's
SseHeaders == <<Entry("Accept", "text/event-stream"), Entry("Cache-Control", "no-cache")>>

\* the options a wrapper hands to request()
WrapperOptions(w, body, opts) ==
    IF w \in WithBody
    THEN [opts EXCEPT !.method = Method(w), !.body = BodyToSend(body)]
    ELSE IF w = "sse"
    THEN [opts EXCEPT !.method = Method(w), !.headers = Spread(opts.headers, SseHeaders)]
    ELSE [opts EXCEPT !.method = Method(w)]

\* faulty variant of RequestReturn: no test for status 204
RequestReturnNo204(r, stream) ==
    IF stream THEN Resolve(r)
    ELSE IF ~Ok(r)
    THEN Reject(FetchClientError(ErrorMessage(r), "ERR_BAD_RESPONSE", r))
    ELSE Resolve(r)

\* request() from the response the response chain gave: a stream is returned
\* as it is, a status outside 2xx throws, 204 gives null
RequestReturn(r, stream) ==
    IF stream THEN Resolve(r)
    ELSE IF ~Ok(r)
    THEN Reject(FetchClientError(ErrorMessage(r), "ERR_BAD_RESPONSE", r))
    ELSE IF r.status = 204 THEN Resolve(NullResult)
    ELSE Resolve(r)

JsonKinds == {"json_nomsg", "json_msg", "json_emptymsg", "json_nullmsg"}

\* await response.json(): the decoded body, or the SyntaxError of a body that
\* is no JSON
Json(r) ==
    IF r.body \in JsonKinds
    THEN [state |-> "resolved", value |-> r.body, decoded |-> TRUE]
    ELSE [state |-> "rejected", value |-> "SyntaxError", decoded |-> TRUE]

\* return response ? await response.json() : null
WrapperReturn(out) ==
    IF out.state = "rejected"
    THEN [state |-> "rejected", value |-> out.err.code, decoded |-> FALSE]
    ELSE IF out.value = NullResult
    THEN [state |-> "resolved", value |-> "null", decoded |-> FALSE]
    ELSE Json(out.value)

\* --------------------------------------------------------------- inputs
\* headers given to createFetchClient
DefaultHeaderSets ==
    {<<>>,
     <<Entry("A", "1")>>,
     <<Entry("Content-Type", "text/plain")>>,
     <<Entry("content-type", "text/plain")>>,
     <<Entry("accept", "text/html")>>}

\* headers given with one call
CallHeaderSets ==
    {<<>>,
     <<Entry("A", "2"), Entry("B", "3")>>,
     <<Entry("Accept", "text/html"), Entry("Cache-Control", "max-age=60")>>,
     <<Entry("accept", "text/html")>>}

\* the clients: each set of default headers with the default credentials
\* policy, and one client with a policy of its own
Clients ==
    {[DefaultClient EXCEPT !.headers = h] : h \in DefaultHeaderSets}
    \cup {[headers |-> <<Entry("A", "1")>>, credentials |-> "include"]}

\* the options of one call: headers, and either nothing else or a method and
\* a credentials policy of the caller's
CallOptions ==
    {[NoOptions EXCEPT !.headers = h] : h \in CallHeaderSets}
    \cup {[NoOptions EXCEPT !.headers = <<Entry("A", "2"), Entry("B", "3")>>,
                            !.method = "POST", !.credentials = "omit"]}

\* the responses the response chain hands back
WrapperResponses ==
    {[status |-> 200, body |-> "json_nomsg"], [status |-> 200, body |-> "unparsable"],
     [status |-> 204, body |-> "nobody"], [status |-> 404, body |-> "json_msg"]}

\* the entry a request interceptor writes into config.headers
InterceptEntries == {Entry("A", "9")}

\* -------------------------------------------------------------- actions
\* client[w](endpoint, body, opts) up to the request chain
Invoke(w, body, opts) ==
    /\ progress \in {"idle", "done"}
    /\ ncalls < MaxCalls
    /\ w \in WithBody \/ body = Undefined
    /\ call' = [wrapper |-> w, body |-> body, options |-> opts,
                afterWrite |-> (sent.headers # merged.headers)]
    /\ merged' = RequestConfig(client, WrapperOptions(w, body, opts), w = "sse")
    /\ sent' = merged'
    /\ client' = Aliased(merged', client)
    /\ result' = NoResult
    /\ progress' = "chain"
    /\ ncalls' = ncalls + 1
    /\ UNCHANGED created

\* a request interceptor writes config.headers[e.k] = e.v and returns config
Intercept(e) ==
    /\ progress = "chain"
    /\ sent' = [sent EXCEPT !.headers = Put(@, e.k, e.v)]
    /\ client' = Aliased(sent', client)
    /\ progress' = "intercepted"
    /\ UNCHANGED <<created, call, merged, result, ncalls>>

\* fetch(url, config), the response r as the response chain leaves it,
\* request()'s return and the wrapper's
Respond(r) ==
    /\ progress \in {"chain", "intercepted"}
    /\ result' = IF call.wrapper = "sse" THEN [NoResult EXCEPT !.response = r]
                 ELSE LET ret == WrapperReturn(RequestReturn(r, sent.isStream))
                      IN  [response |-> r, state |-> ret.state, value |-> ret.value,
                           decoded |-> ret.decoded]
    /\ progress' = "done"
    /\ UNCHANGED <<client, created, call, merged, sent, ncalls>>

ConfigInit ==
    /\ ClientInit
    /\ FrameIdle
    /\ MgrIdle
    /\ UrlIdle
    /\ ParseIdle
    /\ client \in Clients
    /\ created = client
    /\ call = NoCall
    /\ merged = NoConfig
    /\ sent = NoConfig
    /\ result = NoResult
    /\ progress = "idle"
    /\ ncalls = 0

ConfigNext ==
    \/ \E w \in Wrappers, body \in Bodies, opts \in CallOptions :
          Invoke(w, body, opts) /\ UNCHANGED <<clientVars, frameVars, mgrVars, urlVars, parseVars>>
    \/ \E e \in InterceptEntries :
          Intercept(e) /\ UNCHANGED <<clientVars, frameVars, mgrVars, urlVars, parseVars>>
    \/ \E r \in WrapperResponses :
          Respond(r) /\ UNCHANGED <<clientVars, frameVars, mgrVars, urlVars, parseVars>>

ConfigSpec == ConfigInit /\ [][ConfigNext]_vars

\* ======================================================= buildURL, on its own
\* URLs are sequences of characters.
MaxSlashes == 2        \* slashes at the end of the base and at the start of the endpoint

Http == <<"h", "t", "t", "p">>

\* text.replace(/\/$/, ''): one slash at the end is removed
StripTrailingSlash(text) ==
    IF Len(text) > 0 /\ text[Len(text)] = "/" THEN SubSeq(text, 1, Len(text) - 1) ELSE text

\* text.replace(/^\//, ''): one slash at the start is removed
StripLeadingSlash(text) ==
    IF Len(text) > 0 /\ text[1] = "/" THEN Tail(text) ELSE text

\* buildURL
buildURL(base, path) ==
    IF StartsWith(path, Http) THEN path
    ELSE StripTrailingSlash(base) \o <<"/">> \o StripLeadingSlash(path)

RECURSIVE Slashes(_)
Slashes(n) == IF n = 0 THEN <<>> ELSE <<"/">> \o Slashes(n - 1)

\* bases: none, a path, an origin; each with up to MaxSlashes slashes after it
UrlBases ==
    {b \o Slashes(n) :
        b \in {<<>>, <<"/", "v">>, Http \o <<":", "/", "/", "h">>},
        n \in 0..MaxSlashes}

\* endpoints: a path, an http and an https URL, a path that begins with the
\* letters http, a URL of another scheme; each with up to MaxSlashes slashes
\* before it
UrlEndpoints ==
    {Slashes(n) \o e :
        e \in {<<"a">>,
               Http \o <<":", "/", "/", "x">>,
               Http \o <<"s", ":", "/", "/", "x">>,
               Http \o <<"b", "i", "n">>,
               <<"w", "s", ":", "/", "/", "x">>},
        n \in 0..MaxSlashes}

\* buildURL(baseURL, endpoint)
CallBuildURL ==
    /\ url = <<>>
    /\ url' = buildURL(baseURL, endpoint)
    /\ UNCHANGED <<baseURL, endpoint>>

UrlInit ==
    /\ ClientInit
    /\ FrameIdle
    /\ MgrIdle
    /\ CfgIdle
    /\ ParseIdle
    /\ baseURL \in UrlBases
    /\ endpoint \in UrlEndpoints
    /\ url = <<>>

UrlNext == CallBuildURL /\ UNCHANGED <<clientVars, frameVars, mgrVars, cfgVars, parseVars>>

UrlSpec == UrlInit /\ [][UrlNext]_vars

\* ================================================ two calls on one client
\* Two non-streaming calls in flight together on a client without
\* interceptors; each has the controller, timer and timeout of its own run of
\* request().
PairIds == {1, 2}

\* what fetch answers
PairResponses == {[status |-> 200, body |-> "stream"], [status |-> 404, body |-> "json_msg"]}

PairInit ==
    /\ requestInterceptors = <<>>
    /\ responseInterceptors = <<>>
    /\ CallsInitOver(PairIds)
    /\ FrameIdle
    /\ MgrIdle
    /\ CfgIdle
    /\ UrlIdle
    /\ ParseIdle

PairNext ==
    \/ \E c \in PairIds, opt \in TimeoutOptions : Request(c, opt)
    \/ \E c \in PairIds : TimerFire(c)
    \/ \E c \in PairIds : ReqChainDone(c)
    \/ \E c \in PairIds, r \in PairResponses : FetchRespond(c, r) /\ UNCHANGED ghostVars
    \/ \E c \in PairIds : FetchFail(c, "Error")
    \/ \E c \in PairIds : FetchAborted(c)
    \/ \E c \in PairIds : ResChainDone(c)
    \/ \E c \in PairIds : ErrBody(c)

PairSpec == PairInit /\ [][PairNext]_vars

\* ===================================== parseSSEMessage, on its own
\* parseSSEMessage is called once with a block of at most MaxLines lines.
MaxLines == 3          \* lines of the block parseSSEMessage is given

\* the lines blocks are made of: data lines with and without a payload;
\* lines that only resemble a field (no space after the colon, a space
\* before the name); event, id and retry lines, retry with digits and
\* without; a comment
ParseLineSet ==
    {DataPrefix \o <<"a">>, DataPrefix \o <<"b">>, DataPrefix,
     <<"d", "a", "t", "a", ":", "a">>, <<" ">> \o DataPrefix \o <<"a">>,
     EventPrefix \o <<"p">>, EventPrefix \o <<"q">>,
     IdPrefix \o <<"7">>, IdPrefix \o <<"8">>,
     RetryPrefix \o <<"5">>, RetryPrefix \o <<"x">>,
     <<":", "c">>}

ParseInputs ==
    {JoinLines(ls) : ls \in UNION {[1..n -> ParseLineSet] : n \in 0..MaxLines}}

\* parseSSEMessage(text) is called and returns
CallParse ==
    /\ parsed = <<>>
    /\ parsed' = <<parseSSEMessage(input)>>
    /\ UNCHANGED input

ParseInit ==
    /\ ClientInit
    /\ FrameIdle
    /\ MgrIdle
    /\ CfgIdle
    /\ UrlIdle
    /\ input \in ParseInputs
    /\ parsed = <<>>

ParseNext == CallParse /\ UNCHANGED <<clientVars, frameVars, mgrVars, cfgVars, urlVars>>

ParseSpec == ParseInit /\ [][ParseNext]_vars

\* ================ the registries changed while a call is in flight
\* One non-streaming call whose timer does not fire, on a client whose
\* registries use and eject are applied to before the call and at any point
\* of it. `trace` logs, besides the stages, the two registries as they are
\* when request() is invoked and when fetch gives its response.
Sample(ph, r) ==
    [phase |-> ph, id |-> 0, path |-> ph,
     got |-> <<requestInterceptors, responseInterceptors>>,
     done |-> TRUE, ok |-> TRUE, gave |-> r]

RequestSampled(c) ==
    /\ RequestStart(c, [given |-> FALSE, ms |-> 0], FALSE)
    /\ trace' = [trace EXCEPT ![c] = Append(@, Sample("start", <<>>))]
    /\ UNCHANGED <<sse, running>>

FetchSampled(c, r) ==
    /\ FetchRespond(c, r)
    /\ trace' = [trace EXCEPT ![c] = Append(@, Sample("fetch", <<r>>))]
    /\ UNCHANGED running

LiveNext ==
    \/ \E isReq \in BOOLEAN, rej \in BOOLEAN : Use(isReq, rej)
    \/ \E isReq \in BOOLEAN, id \in 1..MaxSlots : Eject(isReq, id)
    \/ \E c \in CallIds : RequestSampled(c)
    \/ \E c \in CallIds : StageStart(c)
    \/ \E c \in CallIds : ReqStageFinish(c)
    \/ \E c \in CallIds : ReqChainDone(c)
    \/ \E c \in CallIds, r \in ChainResponses : FetchSampled(c, r)
    \/ \E c \in CallIds : ResStageFinish(c)
    \/ \E c \in CallIds : ResChainDone(c)
    \/ \E c \in CallIds : ErrBody(c)

LiveSpec == Init /\ [][LiveNext]_vars

\* ===================== request interceptors that rewrite config.timeout
\* One non-streaming call on a client whose interceptors were registered
\* beforehand; a request interceptor may put another signal or another
\* timeout into the config it returns.
InterceptorTimeouts == {1}

\* the responses seen in this specification: ok with a body, not ok
TimeoutResponses ==
    {[status |-> 200, body |-> "stream"], [status |-> 404, body |-> "json_msg"]}

TimeoutNext ==
    \/ Idle /\ \E isReq \in BOOLEAN, rej \in BOOLEAN : Use(isReq, rej)
    \/ Idle /\ \E isReq \in BOOLEAN, id \in 1..MaxSlots : Eject(isReq, id)
    \/ \E c \in CallIds, opt \in TimeoutOptions : Request(c, opt)
    \/ \E c \in CallIds : TimerFire(c)
    \/ \E c \in CallIds :
          ReqStageOver(c, ThrowKinds, InterceptorTimeouts) /\ UNCHANGED ghostVars
    \/ \E c \in CallIds : ReqChainDone(c)
    \/ \E c \in CallIds, r \in TimeoutResponses : FetchRespond(c, r) /\ UNCHANGED ghostVars
    \/ \E c \in CallIds, k \in {"Error", "AbortError"} : FetchFail(c, k)
    \/ \E c \in CallIds : FetchAborted(c)
    \/ \E c \in CallIds : ResStage(c) /\ UNCHANGED ghostVars
    \/ \E c \in CallIds : ResChainDone(c)
    \/ \E c \in CallIds : ErrBody(c)

TimeoutSpec == Init /\ [][TimeoutNext]_vars

\* ================================================================ claims

\* the timeout error request() throws for a call whose options were opt
TimeoutError(opt) ==
    FetchClientError(Msg("Request timeout after ms", IF opt.given THEN opt.ms ELSE DefaultTimeout),
                     "ECONNABORTED", NoResp)

\* the call's timer fired after request() began and no later than its pending fetch
TimedOut(c) ==
    /\ ~isStream[c]
    /\ fetched[c]
    /\ timer[c] = "fired"
    /\ firedAt[c] \in {"reqChain", "fetching"}

\* C1 as stated: a non-streaming call whose fetch has not responded when its
\* timer fires never gets a response; it rejects with the ECONNABORTED error
\* 'Request timeout after N ms', N being options.timeout if given, else the
\* client default.
C1_TimeoutRejects ==
    \A c \in CallIds :
        TimedOut(c) =>
            /\ pc[c] \in {"fetching", "done"}
            /\ pc[c] = "done" => outcome[c] = Reject(TimeoutError(options[c]))

\* a call that timed out with its own signal still in its config is waiting
\* for fetch to reject or has rejected with the timeout error
C1_OwnSignalSafe ==
    \A c \in CallIds :
        (TimedOut(c) /\ config[c].sigKept) =>
            /\ pc[c] \in {"fetching", "done"}
            /\ pc[c] = "done" => outcome[c] = Reject(TimeoutError(options[c]))

\* C1 amended: the same, for the calls whose config still carries the call's
\* own signal when it is handed to fetch (no request interceptor replaced
\* config.signal): such a call never gets a response and does reject with
\* the ECONNABORTED error 'Request timeout after N ms'.
C1_TimeoutRejectsOwnSignal ==
    /\ []C1_OwnSignalSafe
    /\ \A c \in CallIds :
          (TimedOut(c) /\ config[c].sigKept)
              ~> (outcome[c] = Reject(TimeoutError(options[c])))

C1_Witness ==
    \E c \in CallIds :
        /\ TimedOut(c) /\ config[c].sigKept /\ firedAt[c] = "fetching"
        /\ options[c].given
        /\ pc[c] = "done"
        /\ outcome[c].err.code = "ECONNABORTED"
        /\ outcome[c].err.msg.n = CallTimeout

\* C2: a streaming call never has a timeout timer armed and its controller is
\* never aborted, in every state of the call, a silent server included.
C2_StreamNeverTimesOut ==
    \A c \in CallIds :
        isStream[c] => timer[c] = "none" /\ ~aborted[c] /\ firedAt[c] = "none"

C2_Witness ==
    \E c \in CallIds : isStream[c] /\ sse[c].on /\ pc[c] = "fetching"

\* C3: once request() has settled, resolved or rejected (a rejection raised
\* by a request interceptor included), no timer armed by the call is pending.
C3_TimerClearedOnExit ==
    \A c \in CallIds : pc[c] = "done" => timer[c] # "armed"

\* C4: whenever request() rejects, the rejection is a FetchClientError whose
\* code is ERR_NETWORK, ERR_BAD_RESPONSE or ECONNABORTED and which carries the
\* config; what an interceptor throws is wrapped as ERR_NETWORK.
C4_EveryRejectionIsFetchClientError ==
    \A c \in CallIds :
        outcome[c].state = "rejected" =>
            /\ outcome[c].err.fce
            /\ outcome[c].err.code \in {"ERR_NETWORK", "ERR_BAD_RESPONSE", "ECONNABORTED"}
            /\ outcome[c].err.hasConfig

\* the non-streaming call settled on a response that came out of the response
\* chain and is not ok
SettledNotOk(c) ==
    /\ ~isStream[c]
    /\ pc[c] = "done"
    /\ settled[c].ok
    /\ response[c] # NoResp
    /\ ~Ok(response[c])

\* C5: a non-streaming call whose post-interceptor response is not ok rejects
\* with a FetchClientError of code ERR_BAD_RESPONSE carrying config and that
\* response; its message is the body's `message` when the body is JSON holding
\* one (an empty one included) and 'Request failed with status <status>' when
\* the body does not decode or holds none (none, as `??` reads it: absent,
\* undefined or null); the catch block passes it on as is.
C5_BadResponseError ==
    \A c \in CallIds :
        SettledNotOk(c) =>
            /\ outcome[c].state = "rejected"
            /\ outcome[c].err.fce
            /\ outcome[c].err.name = "FetchClientError"
            /\ outcome[c].err.code = "ERR_BAD_RESPONSE"
            /\ outcome[c].err.hasConfig
            /\ outcome[c].err.resp = response[c]
            /\ outcome[c].err.msg =
                  CASE response[c].body = "json_msg" -> Msg("not found", 0)
                    [] response[c].body = "json_emptymsg" -> Msg("", 0)
                    [] OTHER -> Msg("Request failed with status", response[c].status)

C5_Witness ==
    \E c \in CallIds :
        /\ SettledNotOk(c)
        /\ response[c] = [status |-> 404, body |-> "json_msg"]
        /\ outcome[c].err.msg = Msg("not found", 0)

\* C6: readyState only moves connecting -> open, connecting -> closed and
\* open -> closed; once 'closed' it never is 'connecting' or 'open' again.
C6_ClosedIsTerminal ==
    [][\A c \in CallIds :
          sse[c].readyState # sse'[c].readyState =>
              <<sse[c].readyState, sse'[c].readyState>> \in
                  {<<"none", "connecting">>, <<"connecting", "open">>,
                   <<"connecting", "closed">>, <<"open", "closed">>}]_vars

\* C7: whatever calls of close() are made, by the caller, by a callback or
\* by the background task, onClose is invoked at most once, and exactly once
\* as soon as close() has been called.
C7_OnCloseOnce ==
    \A c \in CallIds :
        /\ sse[c].nClose <= 1
        /\ sse[c].closeCalls >= 1 => sse[c].nClose = 1

C7_Witness ==
    \E c \in CallIds :
        /\ sse[c].closeCalls >= 3
        /\ sse[c].nClose = 1
        /\ sse[c].nMessage >= 1
        /\ sse[c].task = "done"

\* C8: when the connection is closed and the background task has finished,
\* no reader acquired for it is left held and un-cancelled, in whatever state
\* close() was called.
C8_ReaderReleasedOnClose ==
    \A c \in CallIds :
        (sse[c].isClosed /\ sse[c].task = "done") => sse[c].reader # "held"

BadStream(c) ==
    /\ sse[c].on
    /\ pc[c] = "done"
    /\ outcome[c].state = "resolved"
    /\ ~HasBody(outcome[c].value) \/ ~Ok(outcome[c].value)

\* the error the manager raises for such a response
IsLocalError(e) ==
    /\ ~e.fce
    /\ e.isError
    /\ e.msg.kind \in {"ReadableStream not supported", "SSE error:"}

\* a streaming call whose response chain fulfilled resolves with its response,
\* whatever the status: no ERR_BAD_RESPONSE is raised in stream mode
StreamUnclassified(c) ==
    /\ (isStream[c] /\ pc[c] = "done" /\ fetched[c] /\ settled[c].ok /\ response[c] # NoResp)
          => outcome[c] = Resolve(response[c])
    /\ isStream[c] => outcome[c].err.code # "ERR_BAD_RESPONSE"

TextRead(n) == Decode(<<>>, SubSeq(wire, 1, n)).text

\* what onMessage is called with when the first n bytes arrive as one chunk
OneChunk(n) == Frames(Complete(Split(TextRead(n), Delimiter)))

\* the stream ends with the delimiter: every event in it is terminated
AllTerminated ==
    Len(wire) >= 2 /\ SubSeq(wire, Len(wire) - 1, Len(wire)) = Delimiter

\* the two messages of the round-trip example
ExampleMessages ==
    <<[EmptyMessage EXCEPT !.data = <<"a", "\n", "b">>],
      [EmptyMessage EXCEPT !.event = Present(<<"p", "i", "n", "g">>),
                           !.data = <<"{", "\"", "x", "\"", ":", "1", "}">>]>>

\* C11: however the stream is cut into chunks (inside a line, inside the
\* delimiter, inside a character), onMessage has been called with exactly
\* what the bytes read so far give when they arrive as one chunk: the parse
\* of each delimited block, in order. When every event of the stream is
\* terminated, nothing is left in the buffer at the end; for the example the
\* calls are data 'a\nb', then event 'ping' with data '{"x":1}'.
C11_FramingIgnoresChunking ==
    /\ messages = OneChunk(pos)
    /\ (ended /\ AllTerminated) => buffer = <<>> /\ pending = <<>>
    /\ (ended /\ wire = ExampleWire) => messages = ExampleMessages

C11_Witness ==
    /\ wire = ExampleWire
    /\ ended
    /\ Len(messages) = 2
    /\ messages[1].data = <<"a", "\n", "b">>
    /\ messages[2].event = Present(<<"p", "i", "n", "g">>)

\* the block has a `data: ` line with something after the prefix
HasData(block) ==
    \E line \in {Split(block, <<"\n">>)[i] : i \in 1..Len(Split(block, <<"\n">>))} :
        StartsWith(line, DataPrefix) /\ Len(line) > Len(DataPrefix)

\* the delimited blocks among the first n bytes of the stream
BlocksRead(n) == Complete(Split(TextRead(n), Delimiter))

\* C12: onMessage is called only with messages whose data is not empty, and
\* once for each delimited block that has a non-empty data line: a block of
\* blank lines, of unknown fields, or of event, id and retry only gives no call.
C12_OnlyFramesWithData ==
    /\ \A i \in 1..Len(messages) : messages[i].data # <<>>
    /\ Len(messages) =
          Cardinality({i \in 1..Len(BlocksRead(pos)) : HasData(BlocksRead(pos)[i])})

C12_Witness ==
    /\ wire = Terminated(<<NoDataBlock, TwoDataBlock>>)
    /\ ended
    /\ Len(messages) = 1
    /\ messages[1].data = <<"a", "\n", "b">>

\* C13: sse() hands back its handle with readyState 'connecting' and no
\* callback run, and it stays so until the task resumes or close() is called;
\* the state is 'open' and onOpen has run only when request() has resolved
\* with a response that has a body and is ok; onOpen runs at most once; no
\* onMessage call comes before onOpen.
C13_OpenAfterResponse ==
    \A c \in CallIds :
        sse[c].on =>
            /\ (sse[c].task = "request" /\ sse[c].closeCalls = 0) =>
                  /\ sse[c].readyState = "connecting"
                  /\ sse[c].nOpen = 0 /\ sse[c].nMessage = 0
                  /\ sse[c].nError = 0 /\ sse[c].nClose = 0
            /\ sse[c].nOpen <= 1
            /\ (sse[c].readyState = "open" \/ sse[c].nOpen = 1) =>
                  /\ sse[c].nOpen = 1
                  /\ isStream[c]
                  /\ outcome[c].state = "resolved"
                  /\ HasBody(outcome[c].value)
                  /\ Ok(outcome[c].value)
            /\ sse[c].nMessage >= 1 => sse[c].nOpen = 1

C13_Witness ==
    \E c \in CallIds :
        /\ sse[c].readyState = "open"
        /\ sse[c].nOpen = 1
        /\ sse[c].nMessage >= 2
        /\ sse[c].closeCalls = 0

\* C14: when reader.read() gives done on a connection that has not been
\* closed, the loop is over, the connection is 'closed', onClose has been
\* invoked exactly once and onError not at all.
C14_StreamEndCloses ==
    \A c \in CallIds :
        sse[c].eof =>
            /\ sse[c].task = "done"
            /\ sse[c].isClosed
            /\ sse[c].readyState = "closed"
            /\ sse[c].nClose = 1
            /\ sse[c].nError = 0

C14_Witness ==
    \E c \in CallIds :
        /\ sse[c].eof
        /\ sse[c].nMessage >= 1
        /\ sse[c].closeCalls = 1
        /\ sse[c].nClose = 1
        /\ sse[c].readyState = "closed"

\* ------------------------------------------------ the interceptor manager
\* the use calls whose handle no eject call was given
NotEjected(u) == u.handle \notin ejected
LiveIssued == SelectSeq(issued, NotEjected)

\* C19: after any use and eject calls, forEach visits exactly the handlers
\* whose handle use returned and eject was not given, each once, in the order
\* of their registration, which is that of their handles.
C19_ForEachVisitsLive ==
    LET visited == ForEach(registry)
    IN  /\ Len(visited) = Len(LiveIssued)
        /\ \A i \in 1..Len(visited) :
              /\ visited[i].id = SlotOf(LiveIssued[i].handle)
              /\ visited[i].hasRej = LiveIssued[i].rej
        /\ \A i, j \in 1..Len(visited) : i < j => visited[i].id < visited[j].id

C19_Witness ==
    /\ Len(issued) = 3
    /\ ejected = {1}
    /\ Len(ForEach(registry)) = 2
    /\ ForEach(registry)[1].id = SlotOf(0)
    /\ ForEach(registry)[2].id = SlotOf(2)

\* C20: eject of an id that is already ejected, was never issued, is negative
\* or past the end changes nothing: forEach visits the same handlers in the
\* same order and the next handle of use is the same; eject of a live handle
\* removes that handler from the visit and nothing else.
C20_EjectIdempotentTotal ==
    [][lastOp'.op = "eject" =>
          LET id == lastOp'.id
              before == ForEach(registry)
              wasLive == id \in Handles /\ id \notin ejected
              Other(v) == v.id # SlotOf(id)
          IN  /\ Len(registry') = Len(registry)
              /\ ~wasLive => registry' = registry /\ ForEach(registry') = before
              /\ wasLive =>
                    /\ ForEach(registry') = SelectSeq(before, Other)
                    /\ Len(ForEach(registry')) = Len(before) - 1]_vars

C20_Witness ==
    /\ lastOp = [op |-> "eject", id |-> 2]
    /\ Len(issued) = 2
    /\ ejected = {1}
    /\ Len(ForEach(registry)) = 1

\* C21: the handle use returns is the number of use calls made before it on
\* the manager, whatever was ejected in between: handles grow strictly, none
\* is returned twice, and the slot a handle names holds the handler that use
\* call registered until it is ejected, and no handler ever after.
C21_HandlesStable ==
    /\ \A i \in 1..Len(issued) : issued[i].handle = i - 1
    /\ \A i, j \in 1..Len(issued) : i < j => issued[i].handle < issued[j].handle
    /\ \A i \in 1..Len(issued) :
          LET slot == SlotOf(issued[i].handle)
          IN  /\ slot \in 1..Len(registry)
              /\ registry[slot] = IF issued[i].handle \in ejected
                                  THEN Tombstone
                                  ELSE Handler(issued[i].rej)

C21_Witness ==
    /\ Len(issued) = 3
    /\ ejected = {0}
    /\ lastOp = [op |-> "use", id |-> 2]
    /\ issued[1].rej # issued[2].rej
    /\ registry[SlotOf(1)] = Handler(issued[2].rej)

\* ------------------------------------------------- the interceptor chains
\* the logged stages of one phase of the call, in the order they started
IsRequestStage(e) == e.phase = "request"
IsResponseStage(e) == e.phase = "response"
IsFetch(e) == e.phase = "fetch"
StagesOf(c, ph) ==
    IF ph = "request" THEN SelectSeq(trace[c], IsRequestStage)
    ELSE SelectSeq(trace[c], IsResponseStage)

RegistryOf(ph) == IF ph = "request" THEN requestInterceptors ELSE responseInterceptors
LiveIds(handler) == {i \in 1..Len(handler) : handler[i].live}

\* fetch has given a response
Fetched(c) == SelectSeq(trace[c], IsFetch) # <<>>

\* what the first stage of a phase is to receive
FirstValue(c, ph) ==
    IF ph = "request" THEN <<MergedConfig>> ELSE SelectSeq(trace[c], IsFetch)[1].gave

\* the chain of the phase has been awaited
PhaseOver(c, ph) ==
    IF ph = "request"
    THEN pc[c] \in {"fetching", "resChain", "errBody", "done"}
    ELSE Fetched(c) /\ pc[c] \in {"errBody", "done"}

\* C15: in each phase the stages run over the live handlers in increasing
\* handle order, all of them and each once; a stage starts only when the one
\* before it has settled; a fulfilment function receives the value the stage
\* before produced, the first one the merged config (request phase) or the
\* response fetch gave (response phase); the request stages come before fetch
\* and the response stages after.
C15_StagesInOrder ==
    \A c \in CallIds : \A ph \in {"request", "response"} :
        LET T == StagesOf(c, ph)
        IN  /\ \A k \in 1..Len(T) : T[k].id \in LiveIds(RegistryOf(ph))
            /\ \A j, k \in 1..Len(T) : j < k => T[j].id < T[k].id
            /\ \A k \in 1..Len(T) : k < Len(T) => T[k].done
            /\ PhaseOver(c, ph) =>
                  /\ {T[k].id : k \in 1..Len(T)} = LiveIds(RegistryOf(ph))
                  /\ \A k \in 1..Len(T) : T[k].done
            /\ \A k \in 1..Len(T) :
                  T[k].path = "fulfilled" =>
                      T[k].got = (IF k = 1 THEN FirstValue(c, ph) ELSE T[k - 1].gave)
            /\ \A i, j \in 1..Len(trace[c]) :
                  (i < j /\ trace[c][i].phase # trace[c][j].phase) =>
                      <<trace[c][i].phase, trace[c][j].phase>> \in
                          {<<"request", "fetch">>, <<"request", "response">>,
                           <<"fetch", "response">>}

C15_Witness ==
    \E c \in CallIds :
        LET T == StagesOf(c, "response")
        IN  /\ LiveIds(responseInterceptors) = {1, 3}
            /\ pc[c] = "done"
            /\ Len(T) = 2
            /\ T[1].id = 1 /\ T[2].id = 3
            /\ T[1].path = "fulfilled" /\ T[2].path = "fulfilled"
            /\ T[1].gave # T[1].got
            /\ T[2].got = T[1].gave

\* C16: a stage that follows a rejection runs its rejection function if it
\* has one and is passed by if it has none, its fulfilment function being
\* skipped either way; the rejection it receives or lets by is the one
\* produced before it; after a recovery the next stage runs its fulfilment
\* function; a rejection no stage recovered from leaves the chain: the request
\* chain's ends request() before fetch, the response chain's goes to the
\* catch block.
C16_RejectionSkipsToHandler ==
    \A c \in CallIds : \A ph \in {"request", "response"} :
        LET T == StagesOf(c, ph)
            reg == RegistryOf(ph)
        IN  /\ \A k \in 1..Len(T) :
                  LET inOk == k = 1 \/ T[k - 1].ok
                  IN  /\ T[k].path = (IF inOk THEN "fulfilled"
                                      ELSE IF reg[T[k].id].hasRej THEN "rejected"
                                      ELSE "skipped")
                      /\ ~inOk => T[k].got = T[k - 1].gave
                      /\ (T[k].done /\ T[k].path = "skipped") =>
                            ~T[k].ok /\ T[k].gave = T[k].got
            /\ (PhaseOver(c, ph) /\ Len(T) > 0 /\ ~T[Len(T)].ok) =>
                  /\ pc[c] = "done"
                  /\ outcome[c].state = "rejected"
                  /\ IF ph = "request"
                     THEN ~fetched[c] /\ <<outcome[c].err>> = T[Len(T)].gave
                     ELSE outcome[c].err = CatchError(T[Len(T)].gave[1], timeout[c])
            /\ (PhaseOver(c, ph) /\ ph = "request" /\ Len(T) > 0 /\ T[Len(T)].ok) =>
                  fetched[c]

C16_Witness ==
    \E c \in CallIds :
        LET T == StagesOf(c, "request")
        IN  /\ Len(T) = 3
            /\ T[1].path = "fulfilled" /\ T[1].done /\ ~T[1].ok
            /\ T[2].path = "skipped"
            /\ T[3].path = "rejected" /\ T[3].done /\ T[3].ok
            /\ fetched[c]

\* C17: for a non-streaming call no error is raised while the response
\* interceptors run; ERR_BAD_RESPONSE is raised only when every live response
\* interceptor has run and for the response the chain produced; when that
\* response is ok the call resolves (null for 204), whatever fetch gave.
C17_InterceptBeforeClassification ==
    \A c \in CallIds :
        ~isStream[c] =>
            LET T == StagesOf(c, "response")
            IN  /\ pc[c] = "resChain" => outcome[c] = Pending
                /\ pc[c] = "errBody" =>
                      chain[c] = <<>> /\ ~Ok(response[c]) /\ outcome[c] = Pending
                /\ outcome[c].err.code = "ERR_BAD_RESPONSE" =>
                      /\ {T[k].id : k \in 1..Len(T)} = LiveIds(responseInterceptors)
                      /\ \A k \in 1..Len(T) : T[k].done
                      /\ settled[c].ok
                      /\ ~Ok(response[c])
                      /\ outcome[c].err.resp = response[c]
                /\ (pc[c] = "done" /\ Fetched(c) /\ settled[c].ok /\ Ok(response[c])) =>
                      outcome[c] = Resolve(IF response[c].status = 204
                                           THEN NullResult ELSE response[c])

C17_Witness ==
    \E c \in CallIds :
        LET T == StagesOf(c, "response")
        IN  /\ Fetched(c)
            /\ FirstValue(c, "response") = <<[status |-> 404, body |-> "json_msg"]>>
            /\ Len(T) = 1
            /\ T[1].got = <<[status |-> 404, body |-> "json_msg"]>>
            /\ T[1].gave = <<[status |-> 200, body |-> "stream"]>>
            /\ outcome[c] = Resolve([status |-> 200, body |-> "stream"])

\* C18: once fetch has given a response the call's timer is not pending, and
\* nothing that follows (response interceptors, the decoding of an error
\* body) makes the call reject with the ECONNABORTED timeout error.
C18_NoTimeoutAfterResponse ==
    \A c \in CallIds :
        response[c] # NoResp =>
            /\ timer[c] # "armed"
            /\ outcome[c].err.code # "ECONNABORTED"
\* ------------------------------------------- the config merge of request()
\* the layers of the call made last: the automatic content type, the
\* call's own headers as request() is handed them
AutoLayer == IF call.body = FormData THEN <<>> ELSE <<Entry("Content-Type", "application/json")>>
OwnLayer ==
    IF call.wrapper = "sse"
    THEN Spread(call.options.headers, SseHeaders)
    ELSE call.options.headers

\* h holds exactly the keys of the three layers, each once, with the value of
\* the last layer that has the key
Layered(h, auto, defaults, own) ==
    /\ Keys(h) = Keys(auto) \cup Keys(defaults) \cup Keys(own)
    /\ \A i, j \in 1..Len(h) : h[i].k = h[j].k => i = j
    /\ \A k \in Keys(h) :
          Get(h, k) = IF Has(own, k) THEN Get(own, k)
                      ELSE IF Has(defaults, k) THEN Get(defaults, k)
                      ELSE Get(auto, k)

\* C22: the headers of the config request() builds are the automatic content
\* type, overwritten key by key by the client's default headers, overwritten
\* by the call's own; defaults {A:1}, own {A:2,B:3} and the automatic
\* content type give {Content-Type, A:2, B:3}.
C22_LayeredMerge ==
    progress # "idle" =>
        /\ Layered(merged.headers, AutoLayer, client.headers, OwnLayer)
        /\ (/\ client.headers = <<Entry("A", "1")>>
            /\ OwnLayer = <<Entry("A", "2"), Entry("B", "3")>>
            /\ call.body # FormData)
           => merged.headers = <<Entry("Content-Type", "application/json"),
                                 Entry("A", "2"), Entry("B", "3")>>

C22_Witness ==
    /\ progress = "chain"
    /\ call.wrapper = "get"
    /\ client.headers = <<Entry("A", "1")>>
    /\ call.options.headers = <<Entry("A", "2"), Entry("B", "3")>>
    /\ merged.headers = <<Entry("Content-Type", "application/json"),
                          Entry("A", "2"), Entry("B", "3")>>

\* C23: two layers whose keys differ only in letter case give one entry in
\* the merged headers: no two entries of config.headers have the same name
\* up to case.
C23_CaseInsensitiveMerge ==
    \A i, j \in 1..Len(merged.headers) :
        Lower(merged.headers[i].k) = Lower(merged.headers[j].k) => i = j

\* C24: with a FormData body the config request() builds has no Content-Type
\* header, whatever the client's default headers; with any other body it has
\* one, application/json unless a default or own header of that name says
\* otherwise.
C24_FormDataNoContentType ==
    progress # "idle" =>
        IF call.body = FormData
        THEN ~Has(merged.headers, "Content-Type")
        ELSE /\ Has(merged.headers, "Content-Type")
             /\ (~Has(client.headers, "Content-Type") /\ ~Has(OwnLayer, "Content-Type"))
                   => Get(merged.headers, "Content-Type") = "application/json"

\* ------------------------------------------------------------ the wrappers
\* C25: whichever of get, post, put, patch and delete was called, a response
\* with status 204 makes it resolve to null with no body decoded, and any
\* other response with a 2xx status makes it settle as response.json() does:
\* with the decoded body.
C25_NoContentIsNull ==
    (progress = "done" /\ call.wrapper # "sse" /\ Ok(result.response)) =>
        IF result.response.status = 204
        THEN /\ result.state = "resolved"
             /\ result.value = "null"
             /\ ~result.decoded
        ELSE /\ result.decoded
             /\ result.response.body \in JsonKinds =>
                   result.state = "resolved" /\ result.value = result.response.body
             /\ result.response.body \notin JsonKinds => result.state = "rejected"

C25_Witness ==
    /\ progress = "done"
    /\ call.wrapper = "patch"
    /\ result.response.status = 204
    /\ result.state = "resolved"
    /\ result.value = "null"

\* C26: post, put and patch hand request() a FormData body as it is and every
\* other body the caller supplied, the falsy 0, false and '' included, as its
\* JSON text.
C26_BodyIsJsonText ==
    (progress # "idle" /\ call.wrapper \in WithBody) =>
        /\ call.body = FormData => merged.body = FormData
        /\ call.body \notin {FormData, Undefined} =>
              merged.body = Text(JsonStringify(call.body))

\* the value list of a header of the request fetch makes from the config
\* request() built, <<>> when it has none of that name
Issued(name) ==
    LET list == Wire(<<>>, merged.headers)
    IN  IF Has(list, name) THEN Get(list, name) ELSE <<>>

\* C27: an SSE request has method GET, Accept: text/event-stream and
\* Cache-Control: no-cache whatever the caller's options and the client's
\* default headers say about them, and keeps every other header of the caller.
C27_SseForcesGetAndHeaders ==
    (progress # "idle" /\ call.wrapper = "sse") =>
        /\ merged.method = "GET"
        /\ merged.isStream
        /\ Issued("accept") = <<"text/event-stream">>
        /\ Issued("cache-control") = <<"no-cache">>
        /\ \A i \in 1..Len(call.options.headers) :
              LET e == call.options.headers[i]
              IN  Lower(e.k) \notin {"accept", "cache-control"} =>
                      Has(merged.headers, e.k) /\ Get(merged.headers, e.k) = e.v

\* C30: no call changes the client's configuration: whatever calls were made
\* and whatever their request interceptors wrote into config.headers, the
\* config request() builds for a call has the headers layered from the
\* automatic content type, the default headers the client was created with
\* and the call's own, and the call's credentials, or the client's when the
\* call gives none.
C30_ClientNeverMutated ==
    /\ client = created
    /\ progress # "idle" =>
          /\ Layered(merged.headers, AutoLayer, created.headers, OwnLayer)
          /\ merged.credentials = IF call.options.credentials # "absent"
                                  THEN call.options.credentials
                                  ELSE created.credentials

C30_Witness ==
    /\ ncalls = 2
    /\ call.afterWrite
    /\ progress = "chain"
    /\ created = [headers |-> <<Entry("A", "1")>>, credentials |-> "include"]
    /\ call.options.headers = <<>>
    /\ merged.credentials = "include"
    /\ Get(merged.headers, "A") = "1"

\* ------------------------------------------------------------------ buildURL
Letters == {"a", "b", "h", "i", "n", "p", "s", "t", "v", "w", "x"}

\* the text begins with a scheme: letters, then ://
HasScheme(text) ==
    \E n \in 1..Len(text) :
        /\ \A i \in 1..n : text[i] \in Letters
        /\ Len(text) >= n + 3
        /\ SubSeq(text, n + 1, n + 3) = <<":", "/", "/">>

\* the text ends, resp. begins, with a slash
EndsWithSlash(text) == Len(text) > 0 /\ text[Len(text)] = "/"
BeginsWithSlash(text) == Len(text) > 0 /\ text[1] = "/"

\* C28: buildURL returns an endpoint that begins with a scheme unchanged, and
\* joins every other endpoint to the base with exactly one slash between
\* them: the result is the base without its trailing slashes, a slash, and
\* the endpoint without its leading slashes.
C28_BuildURL ==
    url # <<>> =>
        IF HasScheme(endpoint)
        THEN url = endpoint
        ELSE \E b \in 0..Len(baseURL), e \in 0..Len(endpoint) :
                /\ url = SubSeq(baseURL, 1, b) \o <<"/">>
                           \o SubSeq(endpoint, e + 1, Len(endpoint))
                /\ ~EndsWithSlash(SubSeq(baseURL, 1, b))
                /\ ~BeginsWithSlash(SubSeq(endpoint, e + 1, Len(endpoint)))
                /\ \A i \in (b + 1)..Len(baseURL) : baseURL[i] = "/"
                /\ \A i \in 1..e : endpoint[i] = "/"

\* ------------------------------------------------- two calls on one client
\* C29: with two calls in flight on one client, a call's signal is aborted
\* only by the expiry of its own timer, and a call fails with ECONNABORTED
\* only when its own timer has fired, reporting its own timeout; while a
\* call is in flight its timer stays set whatever the other call does.
C29_TimerOwnedByCall ==
    \A c \in PairIds :
        /\ aborted[c] => timer[c] = "fired"
        /\ outcome[c].err.code = "ECONNABORTED" =>
              /\ timer[c] = "fired"
              /\ outcome[c].err.msg = Msg("Request timeout after ms", timeout[c])
        /\ pc[c] \in {"reqChain", "fetching"} => timer[c] \in {"armed", "fired"}

C29_Witness ==
    /\ pc[1] = "done"
    /\ outcome[1].err.code = "ECONNABORTED"
    /\ timeout[1] = DefaultTimeout
    /\ pc[2] = "fetching"
    /\ timeout[2] = CallTimeout
    /\ timer[2] = "armed"
    /\ ~aborted[2]


\* the payloads of the lines that begin with the prefix, in order
RECURSIVE Payloads(_, _)
Payloads(lines, prefix) ==
    IF lines = <<>> THEN <<>>
    ELSE (IF StartsWith(Head(lines), prefix)
          THEN <<Slice(Head(lines), Len(prefix))>> ELSE <<>>)
         \o Payloads(Tail(lines), prefix)

\* the payloads from the first one that is not empty onwards: a data line
\* met while the data is still empty adds its payload and no newline, so
\* empty payloads ahead of the first non-empty one leave no trace
Accumulating(payloads) ==
    IF \E i \in 1..Len(payloads) : payloads[i] # <<>>
    THEN SubSeq(payloads,
                CHOOSE i \in 1..Len(payloads) :
                    payloads[i] # <<>> /\ \A j \in 1..(i - 1) : payloads[j] = <<>>,
                Len(payloads))
    ELSE <<>>

LastOf(payloads) ==
    IF payloads = <<>> THEN Absent ELSE Present(payloads[Len(payloads)])

LastRetry(payloads) ==
    IF payloads = <<>> THEN Absent ELSE Present(ParseInt(payloads[Len(payloads)]))

\* what the block's lines say the message is
ExpectedMessage(lines) ==
    [data |-> JoinLines(Accumulating(Payloads(lines, DataPrefix))),
     event |-> LastOf(Payloads(lines, EventPrefix)),
     id |-> LastOf(Payloads(lines, IdPrefix)),
     retry |-> LastRetry(Payloads(lines, RetryPrefix))]

\* C31: parseSSEMessage over one block recognizes lines by the exact prefixes
\* 'data: ', 'event: ', 'id: ' and 'retry: ' only and ignores every other
\* line; the data is the payloads of the data lines, from the first
\* non-empty one on, joined by single newlines; of event, id and retry the
\* last occurrence wins; the result is the message when that data is not
\* empty and null when it is.
C31_ParseSSEMessage ==
    parsed # <<>> =>
        LET expected == ExpectedMessage(Split(input, <<"\n">>))
        IN  parsed[1] = IF expected.data # <<>> THEN <<expected>> ELSE <<>>

\* a block of an empty data line, two data lines with payloads after it
\* has been parsed into a message
C31_Witness ==
    /\ input = JoinLines(<<DataPrefix, DataPrefix \o <<"a">>, DataPrefix \o <<"b">>>>)
    /\ parsed = <<<<[data |-> <<"a", "\n", "b">>, event |-> Absent, id |-> Absent,
                     retry |-> Absent]>>>>


\* C32: once an SSE connection has been closed, onMessage is never invoked
\* again for it, also when close() was called from inside an onMessage
\* handler while further complete frames of the same chunk await dispatch.
C32_NoMessageAfterClose ==
    \A c \in CallIds : "onMessage" \notin sse[c].late

\* C33: once close() has been called on an SSE connection, neither onOpen
\* nor onError is invoked afterwards.
C33_NoOpenOrErrorAfterClose ==
    \A c \in CallIds : sse[c].late \cap {"onOpen", "onError"} = {}


\* C34: a call fails with the ECONNABORTED timeout error only if its own
\* timer fired; no failure raised by an interceptor or by the transport with
\* the timer not expired, and no failure of a streaming call, is reported
\* as 'Request timeout after N ms'.
C34_TimeoutOnlyWhenTimerFired ==
    \A c \in CallIds :
        outcome[c].err.code = "ECONNABORTED" =>
            /\ ~isStream[c]
            /\ firedAt[c] # "none"


\* the errors request() raises itself, outside the chains
RaisedOutside == {"ERR_NETWORK", "ECONNABORTED", "ERR_BAD_RESPONSE"}

IsStart(e) == e.phase = "start"
Sampled(c, ph) ==
    IF ph = "request" THEN SelectSeq(trace[c], IsStart) # <<>> ELSE Fetched(c)
SampleAt(c, ph) ==
    IF ph = "request" THEN SelectSeq(trace[c], IsStart)[1].got[1]
    ELSE SelectSeq(trace[c], IsFetch)[1].got[2]

\* C36: the interceptors applied to a call are sampled per phase: the
\* request chain is the handlers live when request() is invoked, the
\* response chain the handlers live when the response arrives; a use or
\* eject on the response registry while the call is in flight changes its
\* response chain, one on the request registry after the call started does
\* not change its request chain.
C36_SampledPerPhase ==
    \A c \in CallIds : \A ph \in {"request", "response"} :
        LET T == StagesOf(c, ph)
        IN  /\ T # <<>> => Sampled(c, ph)
            /\ \A k \in 1..Len(T) : T[k].id \in LiveIds(SampleAt(c, ph))
            /\ \A j, k \in 1..Len(T) : j < k => T[j].id < T[k].id
            /\ PhaseOver(c, ph) =>
                  {T[k].id : k \in 1..Len(T)} = LiveIds(SampleAt(c, ph))

\* request() was invoked on empty registries; one handler was registered on
\* each registry before the response arrived: the call ran no request stage
\* and ran the response stage
C36_Witness ==
    \E c \in CallIds :
        /\ pc[c] = "done"
        /\ Fetched(c)
        /\ SelectSeq(trace[c], IsStart)[1].got = <<<<>>, <<>>>>
        /\ LiveIds(requestInterceptors) = {1}
        /\ LiveIds(SampleAt(c, "response")) = {1}
        /\ StagesOf(c, "request") = <<>>
        /\ Len(StagesOf(c, "response")) = 1
        /\ StagesOf(c, "response")[1].id = 1


\* the text after the last delimiter of the whole stream
TailText == Retain(Split(TextRead(Len(wire)), Delimiter))

\* C37: when the stream ends, text still in the buffer that no blank-line
\* delimiter followed is never dispatched: a final event without its blank
\* line gives no onMessage call, and the number of onMessage calls is the
\* number of delimiter-terminated blocks with non-empty data.
C37_TailNeverDispatched ==
    ended =>
        /\ buffer = TailText
        /\ Len(messages) =
              Cardinality({i \in 1..Len(BlocksRead(Len(wire))) :
                              HasData(BlocksRead(Len(wire))[i])})
        /\ HasData(TailText) =>
              \A i \in 1..Len(messages) :
                  <<messages[i]>> # parseSSEMessage(TailText)

\* a stream of one terminated block and a data line that nothing follows
\* has ended: one call was made and the line is still in the buffer
C37_Witness ==
    /\ wire = Terminated(<<JoinLines(<<DataPrefix \o <<"a">>, DataPrefix \o <<"b">>>>)>>)
                  \o Utf8(DataPrefix \o <<"z">>)
    /\ ended
    /\ Len(messages) = 1
    /\ messages[1].data = <<"a", "\n", "b">>
    /\ buffer = DataPrefix \o <<"z">>


\* C38: the timeout of a call is fixed before the request interceptors run:
\* the timer is armed with, and the timeout error reports, the value resolved
\* from options.timeout or the client default; a request interceptor that
\* changes config.timeout or config.signal changes neither.
C38_TimeoutFixedBeforeInterceptors ==
    \A c \in CallIds :
        pc[c] # "idle" =>
            /\ timeout[c] = (IF options[c].given THEN options[c].ms ELSE DefaultTimeout)
            /\ pc[c] = "reqChain" => timer[c] \in {"armed", "fired"}
            /\ outcome[c].err.code = "ECONNABORTED" =>
                  outcome[c].err.msg =
                      Msg("Request timeout after ms",
                          IF options[c].given THEN options[c].ms ELSE DefaultTimeout)

\* a call given its own timeout, whose config a request interceptor handed
\* on with another timeout, timed out while fetch was pending: the error
\* reports the call's timeout
C38_Witness ==
    \E c \in CallIds :
        /\ options[c].given
        /\ config[c].timeout \in InterceptorTimeouts
        /\ config[c].timeout # CallTimeout
        /\ timer[c] = "fired" /\ firedAt[c] = "fetching"
        /\ pc[c] = "done"
        /\ outcome[c].err.code = "ECONNABORTED"
        /\ outcome[c].err.msg = Msg("Request timeout after ms", CallTimeout)

====
